---- MODULE Spec2Model ----
(***************************************************************************)
(* Model of the Parkinson voice screening tool: the prediction engine      *)
(* (predictor.py, model_loader.py), the feature extractor                  *)
(* (feature_extraction.py), the desktop shell (ui/main_window.py,          *)
(* ui/history.py) and the training pipeline (training/train_*.py).         *)
(*                                                                         *)
(* Floating point numbers are kept in fixed point: confidences,            *)
(* probabilities and exponentials in thousandths, class values in tenths.  *)
(***************************************************************************)
EXTENDS Integers, Sequences, FiniteSets, TLC

VARIABLES
    \* ---- prediction engine (predictor.py) ----
    artifacts,      \* ModelArtifacts of the predictor: [model, scaler]
    features,       \* number of values of the vector handed to the last call
    reply,          \* what the loaded classifier answers for the current call
    result,         \* outcome of the last predict_features call
    calls,          \* methods invoked on scaler/classifier by the last call
    inflight,       \* the predict_features calls of concurrent callers, by caller
    \* ---- feature extractor (feature_extraction.py) ----
    signal,         \* the loaded audio: [len, pitch]
    feat,           \* outcome of the last extract_features call
    level,          \* the loaded audio's energy measurements: [rms_mean, flatness, noise_floor, signal_peak]
    \* ---- desktop shell (ui/main_window.py) ----
    files,          \* artifact files present under models/
    unloadable,     \* artifact files joblib.load fails on
    loaded,         \* _load_model has run
    load_error,     \* _load_model showed "Model Load Error"
    predictor_audio,
    predictor_csv,
    mode_index,     \* mode_combo.currentIndex()
    audio_path,
    csv_path,
    analyze_enabled,\* analyze_btn.isEnabled()
    page,           \* stack.currentIndex()
    history,        \* HistoryStore.entries
    history_file,   \* data/history.json
    store_state,    \* the HistoryStore: not constructed, constructed, or added to
    shown,          \* result label and confidence on display
    quality,        \* the recording-quality panel
    run,            \* what the last _run_analysis did
    \* ---- training pipeline (training/train_*_model.py) ----
    tpc,            \* the statement train_and_save is about to execute
    data,           \* the dataset (X, y): [n, y, clean]
    train_idx,
    test_idx,
    scaler,         \* the scaler fitted for the holdout evaluation
    scaler_full,    \* the scaler fitted for the final model
    svc,            \* model: the SVC, as its last fit left it
    accuracy,       \* the holdout accuracy reported, and what it was measured with
    disk,           \* the two artifact files in out_dir
    \* ---- dataset loading (training/train_*_model.py, _load_csv_features) ----
    csv,            \* a CSV/XLSX table and what the two loaders made of it
    collected       \* collect_wav_files / collect_hf_wavs and build_feature_matrix

predVars == <<artifacts, features, reply, result, calls, inflight>>
extractVars == <<signal, feat, level>>
appVars == <<files, unloadable, loaded, load_error, predictor_audio, predictor_csv,
             mode_index, audio_path, csv_path, analyze_enabled, page, history,
             history_file, store_state, shown, quality, run>>
trainVars == <<tpc, data, train_idx, test_idx, scaler, scaler_full, svc, accuracy, disk,
               csv, collected>>
vars == <<artifacts, features, reply, result, calls, inflight, signal, feat, level,
          files, unloadable, loaded, load_error, predictor_audio, predictor_csv,
          mode_index, audio_path, csv_path, analyze_enabled, page, history,
          history_file, store_state, shown, quality, run,
          tpc, data, train_idx, test_idx, scaler, scaler_full, svc, accuracy, disk,
          csv, collected>>

NULL == "None"

\* ------------------------------------------------------------------------
\* Bounds of the model
\* ------------------------------------------------------------------------
MaxScore == 1          \* decision scores range over -MaxScore..MaxScore
MaxDim == 2            \* feature vectors handed to predict_features have 1..MaxDim values
MaxSamples == 1100     \* audio signals have 0..MaxSamples samples
MaxHistory == 1        \* analyses are run while the history has fewer entries
MaxRows == 6           \* training datasets have 1..MaxRows rows

\* ------------------------------------------------------------------------
\* Python values of a predicted class
\* ------------------------------------------------------------------------
\* py: the Python type as isinstance sees it.  "int": int / np.integer,
\* "float": float / np.float64 (a subclass of float), "float32": np.float32
\* (no subclass of float), "str": str / np.str_.
\* Numbers carry their value in tenths, strings their characters.
PyInt(n) == [py |-> "int", v |-> 10 * n]
PyFloat(tenths) == [py |-> "float", v |-> tenths]
PyFloat32(tenths) == [py |-> "float32", v |-> tenths]
PyStr(chars) == [py |-> "str", v |-> chars]

UpperChars == <<"A", "B", "C", "D", "E", "F", "G", "H", "I", "J", "K", "L", "M",
                "N", "O", "P", "Q", "R", "S", "T", "U", "V", "W", "X", "Y", "Z">>
LowerChars == <<"a", "b", "c", "d", "e", "f", "g", "h", "i", "j", "k", "l", "m",
                "n", "o", "p", "q", "r", "s", "t", "u", "v", "w", "x", "y", "z">>

\* str.lower(), character by character
LowerChar(c) ==
    IF \E i \in DOMAIN UpperChars : UpperChars[i] = c
    THEN LowerChars[CHOOSE i \in DOMAIN UpperChars : UpperChars[i] = c]
    ELSE c
Lower(s) == [i \in DOMAIN s |-> LowerChar(s[i])]

\* sub in s
Contains(sub, s) ==
    \E i \in 1..(Len(s) - Len(sub) + 1) : SubSeq(s, i, i + Len(sub) - 1) = sub

\* int(x): truncation toward zero of a value given in tenths
PyIntOf(tenths) == IF tenths >= 0 THEN tenths \div 10 ELSE -((-tenths) \div 10)

ParkinsonLabel == "Likely Parkinson's"
HealthyLabel == "Likely Healthy"
Park == <<"p", "a", "r", "k">>

\* A label mapping that also accepts the training folder name "pd".
LabelFromClass_Pd(pred_class) ==
    IF pred_class.py \in {"int", "float"} /\ PyIntOf(pred_class.v) = 1
    THEN ParkinsonLabel
    ELSE IF pred_class.py = "str"
            /\ (Contains(Park, Lower(pred_class.v)) \/ Lower(pred_class.v) = <<"p", "d">>)
    THEN ParkinsonLabel
    ELSE HealthyLabel

\* ParkinsonPredictor._label_from_class
LabelFromClass(pred_class) ==
    IF pred_class.py \in {"int", "float"} /\ PyIntOf(pred_class.v) = 1
    THEN ParkinsonLabel
    ELSE IF pred_class.py = "str" /\ Contains(Park, Lower(pred_class.v))
    THEN ParkinsonLabel
    ELSE HealthyLabel

\* ------------------------------------------------------------------------
\* Loaded artifacts: classifier and scaler as the predictor sees them
\* ------------------------------------------------------------------------
\* classes_ arrays a persisted classifier may carry
IntBinary == <<PyInt(0), PyInt(1)>>
IntThree == <<PyInt(0), PyInt(1), PyInt(2)>>
FloatBinary == <<PyFloat(0), PyFloat(10)>>
FloatGraded == <<PyFloat(0), PyFloat(15)>>
Float32Binary == <<PyFloat32(0), PyFloat32(10)>>
StrNames == <<PyStr(<<"h", "e", "a", "l", "t", "h", "y">>),
              PyStr(<<"P", "a", "r", "k", "i", "n", "s", "o", "n">>)>>
StrAbbrev == <<PyStr(<<"H", "C">>), PyStr(<<"P", "D">>)>>
ClassLists == {IntBinary, IntThree, FloatBinary, FloatGraded, Float32Binary,
               StrNames, StrAbbrev}

\* A classifier as far as hasattr/getattr can tell: which optional methods it
\* has, whether it has a classes_ attribute, and the classes it predicts.
\* (classes_ is read only next to predict_proba, so classifiers without
\* classes_ are the ones that have predict_proba.)
Classifiers ==
    {m \in [has_proba : BOOLEAN, has_decision : BOOLEAN, has_classes : BOOLEAN,
            labels : ClassLists] : m.has_classes \/ m.has_proba}

Scalers == [n_features_in : 1..MaxDim]

NoClass == [py |-> "none", v |-> 0]

RECURSIVE SumSeq(_)
SumSeq(s) == IF s = <<>> THEN 0 ELSE Head(s) + SumSeq(Tail(s))

RECURSIVE MaxSeq(_)
MaxSeq(s) ==
    IF Len(s) = 1 THEN s[1]
    ELSE LET m == MaxSeq(Tail(s)) IN IF Head(s) >= m THEN Head(s) ELSE m

\* predict_proba rows: one probability (in thousandths) per class, summing to 1
ProbGrid == {0, 250, 500, 750, 1000}
ProbaRows(n) == {p \in [1..n -> ProbGrid] : SumSeq(p) = 1000}

\* decision_function results for one row: shape (1,) or shape (1, n)
ScoreArrays(n) ==
    {[ndim |-> 1, row |-> <<s>>] : s \in -MaxScore..MaxScore}
    \cup {[ndim |-> 2, row |-> r] : r \in [1..n -> -MaxScore..MaxScore]}
NoScores == [ndim |-> 0, row |-> <<>>]

\* What the classifier of the artifacts answers during one predict_features
\* call: the class of predict, the row of predict_proba, the array of
\* decision_function; raises names the call that throws, if one does.
Replies(m) ==
    LET n == Len(m.labels) IN
    {[raises |-> "none", pred |-> m.labels[i], proba |-> p, scores |-> s] :
        i \in 1..n,
        p \in IF m.has_proba THEN ProbaRows(n) ELSE {<<>>},
        s \in IF ~m.has_proba /\ m.has_decision THEN ScoreArrays(n) ELSE {NoScores}}
    \cup {[raises |-> "predict", pred |-> NoClass, proba |-> <<>>, scores |-> NoScores]}
    \cup {[raises |-> "confidence", pred |-> m.labels[i], proba |-> <<>>, scores |-> NoScores] :
            i \in {j \in 1..n : m.has_proba \/ m.has_decision}}
NoReply == [raises |-> "none", pred |-> NoClass, proba |-> <<>>, scores |-> NoScores]

\* np.exp in thousandths, for whole arguments
ExpMilli(k) ==
    CASE k <= -8 -> 0
      [] k = -7 -> 1
      [] k = -6 -> 2
      [] k = -5 -> 7
      [] k = -4 -> 18
      [] k = -3 -> 50
      [] k = -2 -> 135
      [] k = -1 -> 368
      [] k = 0 -> 1000
      [] k = 1 -> 2718
      [] k = 2 -> 7389
      [] k = 3 -> 20086
      [] k = 4 -> 54598
      [] k = 5 -> 148413
      [] k = 6 -> 403429
      [] k = 7 -> 1096633
      [] OTHER -> 2980958

\* int(np.where(classes == pred_class)[0][0]); 0 stands for the IndexError
IndexOfClass(classes, pred_class) ==
    IF \E i \in DOMAIN classes : classes[i] = pred_class
    THEN CHOOSE i \in DOMAIN classes :
            classes[i] = pred_class /\ \A j \in 1..(i - 1) : classes[j] # pred_class
    ELSE 0

\* int(np.argmax(proba)): the first index of the maximum
ArgMax(row) ==
    CHOOSE i \in DOMAIN row :
        row[i] = MaxSeq(row) /\ \A j \in 1..(i - 1) : row[j] # MaxSeq(row)

\* 1.0 / (1.0 + np.exp(-score))
Sigmoid(score) == (1000 * 1000) \div (1000 + ExpMilli(-score))

\* np.max(exp_scores / exp_scores.sum(axis=1, keepdims=True))
SoftmaxMax(row) ==
    LET top == MaxSeq(row)
        exp_scores == [i \in DOMAIN row |-> ExpMilli(row[i] - top)]
        total == SumSeq(exp_scores)
    IN MaxSeq([i \in DOMAIN row |-> (exp_scores[i] * 1000) \div total])

Conf(value, called) == [raised |-> "", value |-> value, calls |-> called]
ConfRaise(exc, called) == [raised |-> exc, value |-> 0, calls |-> called]

NeutralConfidence == 500

\* A confidence that reads the largest probability whatever class was predicted.
Confidence_ArgMax(model, r) ==
    IF model.has_proba
    THEN IF r.raises = "confidence"
         THEN ConfRaise("Exception", <<"predict_proba">>)
         ELSE LET idx == ArgMax(r.proba)
              IN IF idx = 0
                 THEN ConfRaise("IndexError", <<"predict_proba">>)
                 ELSE Conf(r.proba[idx], <<"predict_proba">>)
    ELSE IF model.has_decision
    THEN IF r.raises = "confidence"
         THEN ConfRaise("Exception", <<"decision_function">>)
         ELSE IF r.scores.ndim = 1
              THEN Conf(Sigmoid(r.scores.row[1]), <<"decision_function">>)
              ELSE Conf(SoftmaxMax(r.scores.row), <<"decision_function">>)
    ELSE Conf(NeutralConfidence, <<>>)

\* A confidence that prefers the decision score over the probabilities (the
\* score of a classifier that also has probabilities is taken as 0).
Confidence_ScoreFirst(model, r) ==
    IF model.has_proba /\ ~model.has_decision
    THEN IF r.raises = "confidence"
         THEN ConfRaise("Exception", <<"predict_proba">>)
         ELSE LET idx == IF model.has_classes
                         THEN IndexOfClass(model.labels, r.pred)
                         ELSE ArgMax(r.proba)
              IN IF idx = 0
                 THEN ConfRaise("IndexError", <<"predict_proba">>)
                 ELSE Conf(r.proba[idx], <<"predict_proba">>)
    ELSE IF model.has_decision
    THEN IF r.raises = "confidence"
         THEN ConfRaise("Exception", <<"decision_function">>)
         ELSE IF r.scores.ndim # 2
              THEN Conf(Sigmoid(0), <<"decision_function">>)
              ELSE Conf(SoftmaxMax(r.scores.row), <<"decision_function">>)
    ELSE Conf(NeutralConfidence, <<>>)

\* A confidence whose fallback is 0 instead of 0.5.
Confidence_ZeroFallback(model, r) ==
    IF model.has_proba
    THEN IF r.raises = "confidence"
         THEN ConfRaise("Exception", <<"predict_proba">>)
         ELSE LET idx == IF model.has_classes
                         THEN IndexOfClass(model.labels, r.pred)
                         ELSE ArgMax(r.proba)
              IN IF idx = 0
                 THEN ConfRaise("IndexError", <<"predict_proba">>)
                 ELSE Conf(r.proba[idx], <<"predict_proba">>)
    ELSE IF model.has_decision
    THEN IF r.raises = "confidence"
         THEN ConfRaise("Exception", <<"decision_function">>)
         ELSE IF r.scores.ndim = 1
              THEN Conf(Sigmoid(r.scores.row[1]), <<"decision_function">>)
              ELSE Conf(SoftmaxMax(r.scores.row), <<"decision_function">>)
    ELSE Conf(0, <<>>)

\* A confidence that returns the exponential of the binary score unnormalised.
Confidence_RawExp(model, r) ==
    IF model.has_proba
    THEN IF r.raises = "confidence"
         THEN ConfRaise("Exception", <<"predict_proba">>)
         ELSE LET idx == IF model.has_classes
                         THEN IndexOfClass(model.labels, r.pred)
                         ELSE ArgMax(r.proba)
              IN IF idx = 0
                 THEN ConfRaise("IndexError", <<"predict_proba">>)
                 ELSE Conf(r.proba[idx], <<"predict_proba">>)
    ELSE IF model.has_decision
    THEN IF r.raises = "confidence"
         THEN ConfRaise("Exception", <<"decision_function">>)
         ELSE IF r.scores.ndim = 1
              THEN Conf(ExpMilli(r.scores.row[1]), <<"decision_function">>)
              ELSE Conf(SoftmaxMax(r.scores.row), <<"decision_function">>)
    ELSE Conf(NeutralConfidence, <<>>)

\* ParkinsonPredictor._confidence(model, scaled, pred_class); r is what the
\* classifier answers (r.pred is pred_class)
Confidence(model, r) ==
    IF model.has_proba
    THEN IF r.raises = "confidence"
         THEN ConfRaise("Exception", <<"predict_proba">>)
         ELSE LET idx == IF model.has_classes
                         THEN IndexOfClass(model.labels, r.pred)
                         ELSE ArgMax(r.proba)
              IN IF idx = 0
                 THEN ConfRaise("IndexError", <<"predict_proba">>)
                 ELSE Conf(r.proba[idx], <<"predict_proba">>)
    ELSE IF model.has_decision
    THEN IF r.raises = "confidence"
         THEN ConfRaise("Exception", <<"decision_function">>)
         ELSE IF r.scores.ndim = 1
              THEN Conf(Sigmoid(r.scores.row[1]), <<"decision_function">>)
              ELSE Conf(SoftmaxMax(r.scores.row), <<"decision_function">>)
    ELSE Conf(NeutralConfidence, <<>>)

NoResult == [kind |-> "none", label |-> "", confidence |-> 0, exc |-> ""]
PredictionResult(label, confidence) ==
    [kind |-> "ok", label |-> label, confidence |-> confidence, exc |-> ""]
Raised(exc) == [kind |-> "raise", label |-> "", confidence |-> 0, exc |-> exc]

\* A scaler that is refitted on the row it transforms (fit_transform).
ScalerAfterTransform_Refit(sc, n) == [n_features_in |-> n]

\* self.artifacts.scaler.transform(features): the scaler after the call;
\* transform reads mean_ and scale_ and assigns nothing
ScalerAfterTransform(sc, n) == sc

\* The callers that may be inside predict_features of one predictor at once
Callers == {1, 2}
\* A caller's call: not started, past scaler.transform, or returned
NotCalling ==
    [pc |-> "idle", n |-> 0, reply |-> NoReply, result |-> NoResult, calls |-> <<>>]
Scaled(n) ==
    [pc |-> "scaled", n |-> n, reply |-> NoReply, result |-> NoResult,
     calls |-> <<"transform">>]
CallReturned(n, r, o) ==
    [pc |-> "returned", n |-> n, reply |-> r, result |-> o.result, calls |-> o.calls]

\* A predict_features whose scaler cuts or pads the vector to its own width
\* and hands the row on to the classifier.
PredictFeaturesOutcome_Resized(a, n, r) ==
    IF n # a.scaler.n_features_in
    THEN [result |-> PredictionResult(LabelFromClass(a.model.labels[1]), NeutralConfidence),
          calls |-> <<"transform", "predict">>]
    ELSE IF r.raises = "predict"
    THEN [result |-> Raised("Exception"), calls |-> <<"transform", "predict">>]
    ELSE LET c == Confidence(a.model, r)
             made == <<"transform", "predict">> \o c.calls
         IN IF c.raised # ""
            THEN [result |-> Raised(c.raised), calls |-> made]
            ELSE [result |-> PredictionResult(LabelFromClass(r.pred), c.value),
                  calls |-> made]

\* A predict_features that asks the classifier again when predict raises and
\* returns a neutral result when the second attempt fails too.
PredictFeaturesOutcome_Retry(a, n, r) ==
    IF n # a.scaler.n_features_in
    THEN [result |-> Raised("ValueError"), calls |-> <<"transform">>]
    ELSE IF r.raises = "predict"
    THEN [result |-> PredictionResult(HealthyLabel, NeutralConfidence),
          calls |-> <<"transform", "predict", "predict">>]
    ELSE LET c == Confidence(a.model, r)
             made == <<"transform", "predict">> \o c.calls
         IN IF c.raised # ""
            THEN [result |-> Raised(c.raised), calls |-> made]
            ELSE [result |-> PredictionResult(LabelFromClass(r.pred), c.value),
                  calls |-> made]

\* ParkinsonPredictor.predict_features(features) on artifacts a, for a vector
\* of n values, the classifier answering r: the outcome and the calls made.
\* StandardScaler.transform raises ValueError for a row whose width is not
\* n_features_in_.
PredictFeaturesOutcome(a, n, r) ==
    IF n # a.scaler.n_features_in
    THEN [result |-> Raised("ValueError"), calls |-> <<"transform">>]
    ELSE IF r.raises = "predict"
    THEN [result |-> Raised("Exception"), calls |-> <<"transform", "predict">>]
    ELSE LET c == Confidence(a.model, r)
             made == <<"transform", "predict">> \o c.calls
         IN IF c.raised # ""
            THEN [result |-> Raised(c.raised), calls |-> made]
            ELSE [result |-> PredictionResult(LabelFromClass(r.pred), c.value),
                  calls |-> made]

\* ------------------------------------------------------------------------
\* Feature extractor (feature_extraction.py)
\* ------------------------------------------------------------------------
\* FeatureConfig: sample_rate, n_mfcc, fmax
SampleRate == 22050
NMfcc == 13
FMax == 500
\* librosa's framing: hop_length 512 with centred frames, for the spectral
\* features and (frame_length 2048 // 4) for yin
HopLength == 512
\* librosa.feature.spectral_contrast is called with its default n_bands and
\* returns n_bands + 1 rows
NBands == 6

\* A loaded signal y is kept as its number of samples, whether all of them
\* are zero, and what librosa.yin estimates for each of its frames: a
\* frequency in Hz, or NonFinite.
NonFinite == -1
PitchValues == {NonFinite, 100, 220}
Frames(len) == 1 + len \div HopLength
\* librosa.yin has no voicing decision.  On a frame of zeros the difference
\* function is zero at every lag, no trough lies under the threshold, the
\* global minimum is the first lag, and the estimate is sr / min_period with
\* min_period = floor(sr / fmax): 501 Hz.
YinOfSilence == SampleRate \div (SampleRate \div FMax)
SilentSignal(n) ==
    [len |-> n, silent |-> TRUE, pitch |-> [i \in 1..Frames(n) |-> YinOfSilence]]
NoSignal == [len |-> 0, silent |-> FALSE, pitch |-> <<>>]
Signals ==
    {NoSignal}
    \cup UNION {{[len |-> n, silent |-> FALSE, pitch |-> p] :
                    p \in [1..Frames(n) -> PitchValues]} : n \in 1..MaxSamples}
    \cup {SilentSignal(n) : n \in 1..MaxSamples}
\* The librosa calls of extract_features after the empty check, in order
ExtractSteps ==
    <<"mfcc", "yin", "spectral_centroid", "spectral_bandwidth", "spectral_rolloff",
      "spectral_flatness", "rms", "spectral_contrast">>
NoFeat == [kind |-> "none", vector |-> <<>>, steps |-> <<>>]

\* pitch[np.isfinite(pitch)]
RECURSIVE FiniteOnly(_)
FiniteOnly(p) ==
    IF p = <<>> THEN <<>>
    ELSE IF Head(p) = NonFinite THEN FiniteOnly(Tail(p))
    ELSE <<Head(p)>> \o FiniteOnly(Tail(p))

RECURSIVE MinSeq(_)
MinSeq(s) ==
    IF Len(s) = 1 THEN s[1]
    ELSE LET m == MinSeq(Tail(s)) IN IF Head(s) <= m THEN Head(s) ELSE m

Mean(s) == SumSeq(s) \div Len(s)
\* population standard deviation, to the whole number below
Std(s) ==
    LET m == Mean(s)
        variance == SumSeq([i \in DOMAIN s |-> (s[i] - m) * (s[i] - m)]) \div Len(s)
    IN CHOOSE r \in 0..(variance + 1) : r * r <= variance /\ (r + 1) * (r + 1) > variance

\* np.median: the middle value of the sorted values, or the mean of the two
Median(s) ==
    LET n == Len(s)
        rank(i) == Cardinality({j \in 1..n : s[j] < s[i] \/ (s[j] = s[i] /\ j < i)}) + 1
        at(k) == s[CHOOSE i \in 1..n : rank(i) = k]
    IN IF n % 2 = 1 THEN at((n + 1) \div 2)
       ELSE (at(n \div 2) + at(n \div 2 + 1)) \div 2

\* _safe_stats(values): (mean, std, min, max), zeros for no values
SafeStats(values) ==
    IF Len(values) = 0 THEN <<0, 0, 0, 0>>
    ELSE <<Mean(values), Std(values), MinSeq(values), MaxSeq(values)>>

\* One entry of the feature vector: the statistic it holds and its value.
\* Values of the spectral statistics depend on the samples and are left 0.
Entry(name, i, v) == [name |-> name, i |-> i, v |-> v]
Rows(name, n) == [i \in 1..n |-> Entry(name, i, 0)]

\* A pitch block whose voiced ratio is taken over the frames.
PitchBlock_PerFrame(sig) ==
    LET pitch == FiniteOnly(sig.pitch)
        stats == SafeStats(pitch)
        pitch_median == IF Len(pitch) > 0 THEN Median(pitch) ELSE 0
        pitch_range == IF Len(pitch) > 0 THEN stats[4] - stats[3] ELSE 0
        voiced_ratio == (Len(pitch) * 1000000) \div (IF Len(sig.pitch) >= 1 THEN Len(sig.pitch) ELSE 1)
    IN <<Entry("pitch_mean", 1, stats[1]), Entry("pitch_std", 1, stats[2]),
         Entry("pitch_min", 1, stats[3]), Entry("pitch_max", 1, stats[4]),
         Entry("pitch_median", 1, pitch_median), Entry("pitch_range", 1, pitch_range),
         Entry("voiced_ratio", 1, voiced_ratio)>>

\* the np.array([...]) of the seven pitch values
PitchBlock(sig) ==
    LET pitch == FiniteOnly(sig.pitch)
        stats == SafeStats(pitch)
        pitch_median == IF Len(pitch) > 0 THEN Median(pitch) ELSE 0
        pitch_range == IF Len(pitch) > 0 THEN stats[4] - stats[3] ELSE 0
        \* pitch.size / max(1, len(y)), in millionths
        voiced_ratio == (Len(pitch) * 1000000) \div (IF sig.len >= 1 THEN sig.len ELSE 1)
    IN <<Entry("pitch_mean", 1, stats[1]), Entry("pitch_std", 1, stats[2]),
         Entry("pitch_min", 1, stats[3]), Entry("pitch_max", 1, stats[4]),
         Entry("pitch_median", 1, pitch_median), Entry("pitch_range", 1, pitch_range),
         Entry("voiced_ratio", 1, voiced_ratio)>>

\* the np.array([...]) of the ten spectral scalars
SpectralBlock ==
    <<Entry("centroid_mean", 1, 0), Entry("centroid_std", 1, 0),
      Entry("bandwidth_mean", 1, 0), Entry("bandwidth_std", 1, 0),
      Entry("rolloff_mean", 1, 0), Entry("rolloff_std", 1, 0),
      Entry("flatness_mean", 1, 0), Entry("flatness_std", 1, 0),
      Entry("rms_mean", 1, 0), Entry("rms_std", 1, 0)>>

ExtractOk(vector) == [kind |-> "ok", vector |-> vector, steps |-> ExtractSteps]
\* raise ValueError("Audio file contains no samples.")
ExtractRaise == [kind |-> "raise", vector |-> <<>>, steps |-> <<>>]

\* An extractor that leaves the spectral-contrast deviations out.
ExtractFeatures_NoContrastStd(sig) ==
    IF sig.len = 0 THEN ExtractRaise
    ELSE ExtractOk(Rows("mfcc_mean", NMfcc) \o Rows("mfcc_std", NMfcc)
                   \o PitchBlock(sig) \o SpectralBlock
                   \o Rows("contrast_mean", NBands + 1))

\* An extractor that puts the MFCC deviations before the MFCC means.
ExtractFeatures_StdFirst(sig) ==
    IF sig.len = 0 THEN ExtractRaise
    ELSE ExtractOk(Rows("mfcc_std", NMfcc) \o Rows("mfcc_mean", NMfcc)
                   \o PitchBlock(sig) \o SpectralBlock
                   \o Rows("contrast_mean", NBands + 1)
                   \o Rows("contrast_std", NBands + 1))

\* extract_features(audio_path) for the signal librosa.load returns
ExtractFeatures(sig) ==
    IF sig.len = 0 THEN ExtractRaise
    ELSE ExtractOk(Rows("mfcc_mean", NMfcc) \o Rows("mfcc_std", NMfcc)
                   \o PitchBlock(sig) \o SpectralBlock
                   \o Rows("contrast_mean", NBands + 1)
                   \o Rows("contrast_std", NBands + 1))

\* ------------------------------------------------------------------------
\* Desktop shell: model loading (ui/main_window.py, model_loader.py)
\* ------------------------------------------------------------------------
audio_model == "models/model_audio.joblib"
audio_scaler == "models/scaler_audio.joblib"
csv_model == "models/model_csv.joblib"
csv_scaler == "models/scaler_csv.joblib"
default_model == "models/model.joblib"
default_scaler == "models/scaler.joblib"
ArtifactFiles == {audio_model, audio_scaler, csv_model, csv_scaler,
                  default_model, default_scaler}

\* predictor_audio / predictor_csv: None, or a predictor over the loaded pair
NoPredictor == [model |-> "", scaler |-> ""]
Predictor(model_path, scaler_path) == [model |-> model_path, scaler |-> scaler_path]

\* load_artifacts(model_path, scaler_path) on the file system fs:
\* "ok", or the exception raised
LoadArtifacts(model_path, scaler_path, fs) ==
    IF model_path \notin fs.files THEN "FileNotFoundError"
    ELSE IF scaler_path \notin fs.files THEN "FileNotFoundError"
    ELSE IF model_path \in fs.unloadable \/ scaler_path \in fs.unloadable
    THEN "Exception"
    ELSE "ok"

\* A loader that looks for the classifier file only.
TryLoadPredictor_ModelOnly(model_path, scaler_path, fs) ==
    IF model_path \in fs.files /\ model_path \notin fs.unloadable
    THEN Predictor(model_path, scaler_path)
    ELSE NoPredictor

\* MainWindow._try_load_predictor
TryLoadPredictor(model_path, scaler_path, fs) ==
    IF model_path \in fs.files /\ scaler_path \in fs.files
    THEN IF LoadArtifacts(model_path, scaler_path, fs) = "ok"
         THEN Predictor(model_path, scaler_path)
         ELSE NoPredictor
    ELSE NoPredictor

\* MainWindow._load_model: the two predictors and whether the error box shows
LoadModel(fs) ==
    LET first_audio == TryLoadPredictor(audio_model, audio_scaler, fs)
        first_csv == TryLoadPredictor(csv_model, csv_scaler, fs)
        defaults == default_model \in fs.files /\ default_scaler \in fs.files
        p_audio == IF first_audio = NoPredictor /\ defaults
                   THEN TryLoadPredictor(default_model, default_scaler, fs)
                   ELSE first_audio
        p_csv == IF first_csv = NoPredictor /\ defaults
                 THEN TryLoadPredictor(default_model, default_scaler, fs)
                 ELSE first_csv
    IN [audio |-> p_audio, csv |-> p_csv,
        error |-> (p_audio = NoPredictor /\ p_csv = NoPredictor)]

\* The file systems the application may start on: any set of artifact files,
\* at most one of them unreadable for joblib.
FileSystems ==
    {fs \in [files : SUBSET ArtifactFiles,
             unloadable : {{}} \cup {{x} : x \in ArtifactFiles}] :
        fs.unloadable \subseteq fs.files}

\* ------------------------------------------------------------------------
\* Desktop shell: the handlers of MainWindow
\* ------------------------------------------------------------------------
NoPath == ""
SelectedWav == "voice.wav"
RecordedWav == "recorded_voice.wav"
SelectedCsv == "features.csv"

\* int(round(result.confidence * 100)) for a confidence in thousandths;
\* Python rounds halves to the even neighbour
ConfidencePct(confidence) ==
    LET q == confidence \div 10
        r == confidence % 10
    IN IF r < 5 THEN q
       ELSE IF r > 5 THEN q + 1
       ELSE IF q % 2 = 0 THEN q ELSE q + 1

\* HistoryEntry without its timestamp
\* datetime.now() formatted to the minute, as one fixed reading of the clock
Now == "2026-01-01 00:00"
HistoryEntry(label, confidence, source) ==
    [timestamp |-> Now, label |-> label, confidence |-> confidence,
     source |-> source]

NothingShown == [label |-> "", confidence |-> 0]
NoRun == [state |-> "none", null_predictor |-> FALSE, dialog |-> "",
          calls |-> <<>>, result |-> NoResult, entry_added |-> FALSE,
          changed |-> FALSE]
RunRecord(null_predictor, dialog, called, res, entry_added) ==
    [state |-> "done", null_predictor |-> null_predictor, dialog |-> dialog,
     calls |-> called, result |-> res, entry_added |-> entry_added,
     changed |-> FALSE]

\* What a predictor call of _run_analysis may end in: an exception while the
\* features are read, an exception in predict_features, a result, or a result
\* whose history entry cannot be saved.
AnalysisOutcomes ==
    {[kind |-> k, result |-> NoResult] : k \in {"features_raise", "predict_raise"}}
    \cup {[kind |-> k, result |-> r] :
            k \in {"ok", "save_raise"},
            r \in {PredictionResult(ParkinsonLabel, 875),
                   PredictionResult(HealthyLabel, 500)}}

\* _refresh_analyze_state: the value given to analyze_btn.setEnabled
RefreshAnalyzeState(index, p_audio, p_csv) ==
    IF index = 0 THEN p_audio # NoPredictor ELSE p_csv # NoPredictor

\* A handler without the model checks: calling a method of None raises inside
\* the try block, after the CSV row was read.
RunAnalysisEffect_NoModelCheck(index, a_path, c_path, p_audio, p_csv, o, entries, display, current) ==
    LET is_audio == index = 0
        none == IF is_audio THEN p_audio = NoPredictor ELSE p_csv = NoPredictor
        keep(dialog, called) ==
            [run |-> RunRecord(none, dialog, called, NoResult, FALSE),
             history |-> entries, shown |-> display, page |-> current]
        reader == IF is_audio THEN "extract_features" ELSE "_load_csv_features"
        source == IF is_audio THEN a_path ELSE c_path
        pct == ConfidencePct(o.result.confidence)
        added == <<HistoryEntry(o.result.label, pct, source)>> \o entries
        made == <<reader, "transform", "predict">>
    IN IF is_audio /\ a_path = NoPath THEN keep("No file", <<>>)
       ELSE IF ~is_audio /\ c_path = NoPath THEN keep("No file", <<>>)
       ELSE IF is_audio /\ p_audio = NoPredictor THEN keep("Analysis Error", <<>>)
       ELSE IF ~is_audio /\ p_csv = NoPredictor THEN keep("Analysis Error", <<reader>>)
       ELSE IF o.kind = "features_raise" THEN keep("Analysis Error", <<reader>>)
       ELSE IF o.kind = "predict_raise"
       THEN keep("Analysis Error", <<reader, "transform">>)
       ELSE IF o.kind = "save_raise"
       THEN [run |-> RunRecord(none, "Analysis Error", made, o.result, TRUE),
             history |-> added,
             shown |-> [label |-> o.result.label, confidence |-> pct],
             page |-> current]
       ELSE [run |-> RunRecord(none, "", made, o.result, TRUE),
             history |-> added,
             shown |-> [label |-> o.result.label, confidence |-> pct],
             page |-> 3]


\* A handler that clears the result on display when the predictor raises.
RunAnalysisEffect_ClearsOnError(index, a_path, c_path, p_audio, p_csv, o, entries, display, current) ==
    LET is_audio == index = 0
        none == IF is_audio THEN p_audio = NoPredictor ELSE p_csv = NoPredictor
        keep(dialog, called) ==
            [run |-> RunRecord(none, dialog, called, NoResult, FALSE),
             history |-> entries, shown |-> display, page |-> current]
        reader == IF is_audio THEN "extract_features" ELSE "_load_csv_features"
        source == IF is_audio THEN a_path ELSE c_path
        pct == ConfidencePct(o.result.confidence)
        added == <<HistoryEntry(o.result.label, pct, source)>> \o entries
        made == <<reader, "transform", "predict">>
    IN IF is_audio /\ a_path = NoPath THEN keep("No file", <<>>)
       ELSE IF ~is_audio /\ c_path = NoPath THEN keep("No file", <<>>)
       ELSE IF is_audio /\ p_audio = NoPredictor THEN keep("Model Missing", <<>>)
       ELSE IF ~is_audio /\ p_csv = NoPredictor THEN keep("Model Missing", <<>>)
       ELSE IF o.kind = "features_raise" THEN keep("Analysis Error", <<reader>>)
       ELSE IF o.kind = "predict_raise"
       THEN [run |-> RunRecord(none, "Analysis Error", <<reader, "transform">>,
                               NoResult, FALSE),
             history |-> entries, shown |-> NothingShown, page |-> 0]
       ELSE IF o.kind = "save_raise"
       THEN [run |-> RunRecord(none, "Analysis Error", made, o.result, TRUE),
             history |-> added,
             shown |-> [label |-> o.result.label, confidence |-> pct],
             page |-> current]
       ELSE [run |-> RunRecord(none, "", made, o.result, TRUE),
             history |-> added,
             shown |-> [label |-> o.result.label, confidence |-> pct],
             page |-> 3]

\* The effect of _run_analysis in mode index with the given paths and
\* predictors, the predictor call ending in outcome o.
RunAnalysisEffect(index, a_path, c_path, p_audio, p_csv, o, entries, display, current) ==
    LET is_audio == index = 0
        none == IF is_audio THEN p_audio = NoPredictor ELSE p_csv = NoPredictor
        keep(dialog, called) ==
            [run |-> RunRecord(none, dialog, called, NoResult, FALSE),
             history |-> entries, shown |-> display, page |-> current]
        reader == IF is_audio THEN "extract_features" ELSE "_load_csv_features"
        source == IF is_audio THEN a_path ELSE c_path
        pct == ConfidencePct(o.result.confidence)
        added == <<HistoryEntry(o.result.label, pct, source)>> \o entries
        made == <<reader, "transform", "predict">>
    IN IF is_audio /\ a_path = NoPath THEN keep("No file", <<>>)
       ELSE IF ~is_audio /\ c_path = NoPath THEN keep("No file", <<>>)
       ELSE IF is_audio /\ p_audio = NoPredictor THEN keep("Model Missing", <<>>)
       ELSE IF ~is_audio /\ p_csv = NoPredictor THEN keep("Model Missing", <<>>)
       ELSE IF o.kind = "features_raise" THEN keep("Analysis Error", <<reader>>)
       ELSE IF o.kind = "predict_raise"
       THEN keep("Analysis Error", <<reader, "transform">>)
       ELSE IF o.kind = "save_raise"
       THEN [run |-> RunRecord(none, "Analysis Error", made, o.result, TRUE),
             history |-> added,
             shown |-> [label |-> o.result.label, confidence |-> pct],
             page |-> current]
       ELSE [run |-> RunRecord(none, "", made, o.result, TRUE),
             history |-> added,
             shown |-> [label |-> o.result.label, confidence |-> pct],
             page |-> 3]


\* ------------------------------------------------------------------------
\* Desktop shell: the history store (ui/history.py)
\* ------------------------------------------------------------------------
\* The history file: missing, present but not readable, holding text that is
\* not JSON (a write cut short leaves such text), holding a JSON value that
\* is not a list, or holding a JSON list of objects.  An object is kept as
\* its key/value pairs in file order.
FileMissing == [kind |-> "missing", items |-> <<>>]
FileUnreadable == [kind |-> "unreadable", items |-> <<>>]
FileBadJson == [kind |-> "bad_json", items |-> <<>>]
FileCut == [kind |-> "cut", items |-> <<>>]
FileScalar == [kind |-> "json_scalar", items |-> <<>>]
FileJson(items) == [kind |-> "json_list", items |-> items]

\* the fields of HistoryEntry
EntryFields == {"timestamp", "label", "confidence", "source"}

\* entry.__dict__ as json.dumps writes it
ItemOf(entry) ==
    <<<<"timestamp", entry.timestamp>>, <<"label", entry.label>>,
      <<"confidence", entry.confidence>>, <<"source", entry.source>>>>
ItemsOf(entries) == [i \in DOMAIN entries |-> ItemOf(entries[i])]

Keys(item) == {item[i][1] : i \in DOMAIN item}
Get(item, key) == item[CHOOSE i \in DOMAIN item : item[i][1] = key][2]
\* HistoryEntry(**item) raises TypeError for a missing or an unexpected key
Matches(item) == Keys(item) = EntryFields /\ Len(item) = Cardinality(EntryFields)
EntryOf(item) ==
    [timestamp |-> Get(item, "timestamp"), label |-> Get(item, "label"),
     confidence |-> Get(item, "confidence"), source |-> Get(item, "source")]

Loaded(entries) == [raised |-> FALSE, entries |-> entries]
LoadRaised == [raised |-> TRUE, entries |-> <<>>]

\* A _load that lets a JSON error through.
HistoryLoad_Strict(file) ==
    IF file.kind = "missing" THEN Loaded(<<>>)
    ELSE IF file.kind \in {"bad_json", "cut"} THEN LoadRaised
    ELSE IF file.kind # "json_list" THEN Loaded(<<>>)
    ELSE IF \E i \in DOMAIN file.items : ~Matches(file.items[i]) THEN Loaded(<<>>)
    ELSE Loaded([i \in DOMAIN file.items |-> EntryOf(file.items[i])])

\* HistoryStore._load
HistoryLoad(file) ==
    IF file.kind = "missing" THEN Loaded(<<>>)
    ELSE IF file.kind # "json_list" THEN Loaded(<<>>)
    ELSE IF \E i \in DOMAIN file.items : ~Matches(file.items[i]) THEN Loaded(<<>>)
    ELSE Loaded([i \in DOMAIN file.items |-> EntryOf(file.items[i])])

\* path.write_text: the write goes through, the file cannot be opened, or
\* the write stops after the file was truncated
Writes == {"ok", "refused", "cut"}
\* HistoryStore.save: the file afterwards
HistorySave(entries, file, write) ==
    IF write = "ok" THEN FileJson(ItemsOf(entries))
    ELSE IF write = "refused" THEN file
    ELSE FileCut

\* HistoryStore.add: entries.insert(0, entry), then save()
HistoryAdd(entries, file, entry, write) ==
    LET inserted == <<entry>> \o entries
    IN [entries |-> inserted, file |-> HistorySave(inserted, file, write),
        raised |-> write # "ok"]

\* The entries and files the history specification works with
SampleEntries ==
    {HistoryEntry(l, c, SelectedWav) : l \in {ParkinsonLabel, HealthyLabel}, c \in {50, 88}}
HistoryFiles ==
    {FileMissing, FileUnreadable, FileBadJson, FileScalar, FileJson(<<>>),
     FileJson(<<<<<<"label", HealthyLabel>>>>>>),
     FileJson(<<<<<<"timestamp", Now>>, <<"label", HealthyLabel>>,
                  <<"confidence", 50>>, <<"source", SelectedWav>>,
                  <<"note", "x">>>>>>)}
    \cup {FileJson(ItemsOf(<<e>>)) : e \in SampleEntries}
    \cup {FileJson(<<ItemOf(e), <<<<"text", "x">>>>>>) : e \in SampleEntries}

\* ------------------------------------------------------------------------
\* Desktop shell: recording quality (ui/main_window.py)
\* ------------------------------------------------------------------------
\* What librosa measures on a loaded signal: the mean of the frame-wise RMS
\* (in 1/10000), the mean spectral flatness (in thousandths), and the 10th
\* and 95th percentile of the RMS envelope in dB relative to its peak (in
\* tenths of a dB; amplitude_to_db keeps them within -80 dB..0 dB).
Level(rms_mean, flatness, noise_floor, signal_peak) ==
    [rms_mean |-> rms_mean, flatness |-> flatness,
     noise_floor |-> noise_floor, signal_peak |-> signal_peak]
NoLevel == Level(0, 0, 0, 0)
\* zeros: no energy, a flat spectrum (flatness 1.0), a constant envelope
SilentLevel == Level(0, 1000, 0, 0)
RmsGrid == {1, 50, 100, 108, 500, 732, 740, 892, 900, 2000, 10000}
FlatnessGrid == {1, 200, 210, 400, 1000}
EnvelopeGrid == {<<0, 0>>, <<-80, 0>>, <<-190, 0>>, <<-212, 0>>, <<-256, 0>>,
                 <<-300, 0>>, <<-800, 0>>}
Levels ==
    {Level(r, f, e[1], e[2]) : r \in RmsGrid, f \in FlatnessGrid, e \in EnvelopeGrid}

\* the low/high arguments of the two _scale_score calls
VolumeLow == 100
VolumeHigh == 900
NoiseLow == 80
NoiseHigh == 300

\* A score that is scaled but not clipped.
ScaleScore_Unclamped(value, low, high) ==
    IF high <= low THEN 0
    ELSE LET num == (value - low) * 100
             den == high - low
         IN IF num >= 0 THEN num \div den ELSE -((-num) \div den)

\* MainWindow._scale_score: int(np.clip(pct * 100, 0, 100))
ScaleScore(value, low, high) ==
    IF high <= low THEN 0
    ELSE LET num == (value - low) * 100
             den == high - low
         IN IF num <= 0 THEN 0
            ELSE IF num >= 100 * den THEN 100
            ELSE num \div den

\* int(np.clip((1.0 - mean flatness) * 100, 0, 100))
ClarityScore(flatness) ==
    LET x == 1000 - flatness
    IN IF x <= 0 THEN 0 ELSE IF x >= 1000 THEN 100 ELSE x \div 10

\* The librosa calls of _compute_quality_metrics after the empty check
QualitySteps == <<"rms", "spectral_flatness", "amplitude_to_db">>
NoMetrics == [kind |-> "none", volume |-> 0, clarity |-> 0, noise |-> 0, steps |-> <<>>]
\* raise ValueError("Audio file contains no samples.")
MetricsRaise == [kind |-> "raise", volume |-> 0, clarity |-> 0, noise |-> 0, steps |-> <<>>]
Metrics(volume, clarity, noise) ==
    [kind |-> "ok", volume |-> volume, clarity |-> clarity, noise |-> noise,
     steps |-> QualitySteps]

\* A scorer without the check for an empty signal.
ComputeQualityMetrics_NoEmptyCheck(sig, lv) ==
    LET snr == IF lv.signal_peak - lv.noise_floor > 0
               THEN lv.signal_peak - lv.noise_floor ELSE 0
    IN Metrics(ScaleScore(lv.rms_mean, VolumeLow, VolumeHigh),
               ClarityScore(lv.flatness),
               ScaleScore(snr, NoiseLow, NoiseHigh))

\* MainWindow._compute_quality_metrics for the signal librosa.load returns
ComputeQualityMetrics(sig, lv) ==
    IF sig.len = 0 THEN MetricsRaise
    ELSE LET snr == IF lv.signal_peak - lv.noise_floor > 0
                    THEN lv.signal_peak - lv.noise_floor ELSE 0
         IN Metrics(ScaleScore(lv.rms_mean, VolumeLow, VolumeHigh),
                    ClarityScore(lv.flatness),
                    ScaleScore(snr, NoiseLow, NoiseHigh))

\* MainWindow._quality_rating
QualityRating(value) ==
    IF value >= 70 THEN "Good" ELSE IF value >= 45 THEN "Fair" ELSE "Poor"

\* An average cut to the whole number below.
AverageScore_Truncated(volume, clarity, noise) == (volume + clarity + noise) \div 3

\* int(round((volume + clarity + noise) / 3)): a third is never a half, so
\* the nearest whole number
AverageScore(volume, clarity, noise) ==
    LET total == volume + clarity + noise
    IN IF total % 3 = 2 THEN total \div 3 + 1 ELSE total \div 3

\* the status of _update_quality_view
QualityStatus(average) ==
    IF average >= 80 THEN "Excellent"
    ELSE IF average >= 60 THEN "Acceptable"
    ELSE "Needs Improvement"

\* The quality panel: status and detail lines, the three bars and ratings,
\* and what the last call of _compute_quality_metrics returned
BlankQuality ==
    [status |-> "--", detail |-> "Awaiting audio input.", average |-> 0,
     volume |-> 0, clarity |-> 0, noise |-> 0, ratings |-> <<"--", "--", "--">>,
     metrics |-> NoMetrics]

\* MainWindow._update_quality_view(audio_path), the file holding signal sig
\* with measurements lv, the panel showing prev
UpdateQualityView(path, sig, lv, prev) ==
    IF path = NoPath THEN BlankQuality
    ELSE LET m == ComputeQualityMetrics(sig, lv) IN
         IF m.kind = "raise"
         THEN [prev EXCEPT !.status = "Unavailable", !.detail = "Failed to read audio.",
                           !.average = 0, !.metrics = m]
         ELSE LET average == AverageScore(m.volume, m.clarity, m.noise) IN
              [status |-> QualityStatus(average), detail |-> "Overall score",
               average |-> average,
               volume |-> m.volume, clarity |-> m.clarity, noise |-> m.noise,
               ratings |-> <<QualityRating(m.volume), QualityRating(m.clarity),
                             QualityRating(m.noise)>>,
               metrics |-> m]

\* The recordings the quality specification starts on: no samples, silence,
\* and a voiced signal with any of the measurements
Recordings ==
    {[signal |-> NoSignal, level |-> NoLevel],
     [signal |-> SilentSignal(MaxSamples), level |-> SilentLevel]}
    \cup {[signal |-> [len |-> MaxSamples, silent |-> FALSE,
                        pitch |-> [i \in 1..Frames(MaxSamples) |-> 220]],
            level |-> lv] : lv \in Levels}

\* The audio files the window is given: one without samples, one voiced
ShellRecordings ==
    {[signal |-> NoSignal, level |-> NoLevel],
     [signal |-> [len |-> MaxSamples, silent |-> FALSE,
                  pitch |-> [i \in 1..Frames(MaxSamples) |-> 220]],
      level |-> Level(500, 200, -256, 0)]}

\* ------------------------------------------------------------------------
\* Training pipeline (training/train_wav_model.py, train_csv_model.py)
\* ------------------------------------------------------------------------
\* A dataset: n rows, the label of each, and whether every value of X is a
\* finite number (SVC.fit rejects X otherwise).
Datasets ==
    UNION {[n : {k}, y : [1..k -> {0, 1}], clean : BOOLEAN] : k \in 1..MaxRows}
NoData == [n |-> 0, y |-> <<>>, clean |-> TRUE]

AllRows(d) == 1..d.n
RowsOfClass(d, c) == {i \in 1..d.n : d.y[i] = c}
ClassesOf(d, rows) == {d.y[i] : i \in rows}

\* StratifiedShuffleSplit(test_size=0.2): n_test = ceil(0.2 * n),
\* n_train = n - n_test
NTest(n) == (n + 4) \div 5
NTrain(n) == n - NTest(n)

\* next(splitter.split(X, y)) raises ValueError when a class has a single
\* member or a partition is smaller than the number of classes
SplitRaises(d) ==
    \/ NTrain(d.n) = 0
    \/ \E c \in ClassesOf(d, AllRows(d)) : Cardinality(RowsOfClass(d, c)) < 2
    \/ NTrain(d.n) < Cardinality(ClassesOf(d, AllRows(d)))
    \/ NTest(d.n) < Cardinality(ClassesOf(d, AllRows(d)))

\* The test partitions a stratified shuffle may draw: n_test rows, each class
\* keeping its share of the training rows to within rounding.
TestPartitions(d) ==
    {t \in SUBSET AllRows(d) :
        /\ Cardinality(t) = NTest(d.n)
        /\ \A c \in ClassesOf(d, AllRows(d)) :
            LET kept == Cardinality(RowsOfClass(d, c) \ t)
                share == Cardinality(RowsOfClass(d, c)) * NTrain(d.n)
            IN kept * d.n >= share - (d.n - 1) /\ kept * d.n <= share + (d.n - 1)}

\* A StandardScaler: which of the two it is and the rows it was fitted on
Unfitted == [id |-> "", fitted_on |-> {}]
FittedScaler(id, rows) == [id |-> id, fitted_on |-> rows]
\* The SVC: the rows of its last fit and the scaler that transformed them
Untrained == [fitted |-> FALSE, rows |-> {}, scaled_by |-> Unfitted]
FittedModel(rows, by) == [fitted |-> TRUE, rows |-> rows, scaled_by |-> by]
\* model.fit raises ValueError for a single class or non-finite values
FitRaises(d, rows) == Cardinality(ClassesOf(d, rows)) < 2 \/ ~d.clean

\* An artifact file: absent, left by an earlier run, cut short by a failed
\* write, or holding the object dumped by this run
Absent == [state |-> "absent", model |-> Untrained, scaler |-> Unfitted]
Stale == [state |-> "stale", model |-> Untrained, scaler |-> Unfitted]
Partial == [state |-> "partial", model |-> Untrained, scaler |-> Unfitted]
ModelFile(m) == [state |-> "written", model |-> m, scaler |-> Unfitted]
ScalerFile(sc) == [state |-> "written", model |-> Untrained, scaler |-> sc]

\* A holdout scaler fitted on every row of the dataset.
HoldoutFitRows_All(train, test) == train \cup test

\* scaler.fit_transform(X_train): the rows the holdout scaler is fitted on
HoldoutFitRows(train, test) == train

\* The holdout accuracy: not reported yet, or reported together with the
\* classifier that predicted, the scaler that transformed X_test and the rows
\* of X_test
NotReported == [reported |-> FALSE, model |-> Untrained, scaled_by |-> Unfitted,
                rows |-> {}]
HoldoutAccuracy(m, sc, rows) ==
    [reported |-> TRUE, model |-> m, scaled_by |-> sc, rows |-> rows]

\* The scaler handed to the second joblib.dump: the holdout scaler.
DumpedScaler_Holdout(holdout, full) == holdout

\* joblib.dump(scaler_full, ...): the scaler that is persisted
DumpedScaler(holdout, full) == full

PipelineIdle ==
    /\ tpc = "idle"
    /\ data = NoData
    /\ train_idx = {}
    /\ test_idx = {}
    /\ scaler = Unfitted
    /\ scaler_full = Unfitted
    /\ svc = Untrained
    /\ accuracy = NotReported
    /\ disk = [model_file |-> Absent, scaler_file |-> Absent]

\* ------------------------------------------------------------------------
\* Dataset loading from a table (training/train_csv_model.py,
\* ui/main_window.py)
\* ------------------------------------------------------------------------
\* A DataFrame as pd.read_csv / pd.read_excel returns it: the columns in file
\* order, each of a numeric dtype or not, and the number of data rows.
Column(name, kind) == [name |-> name, numeric |-> kind = "number"]
NoTable == [columns |-> <<>>, rows |-> 0]

\* the names the two loaders look for
LabelCandidates == <<"status", "label", "target">>
TrainingIdentifiers == <<"name", "id", "subject">>
InferenceDropped == <<"status", "label", "target", "name", "id">>

Range(s) == {s[i] : i \in DOMAIN s}
ColumnNames(df) == {df.columns[i].name : i \in DOMAIN df.columns}
NamesOf(columns) == [i \in DOMAIN columns |-> columns[i].name]
\* df.drop(columns=names)
DropColumns(columns, names) == SelectSeq(columns, LAMBDA c : c.name \notin names)
\* df.select_dtypes(include=["number"])
SelectNumber(columns) == SelectSeq(columns, LAMBDA c : c.numeric)
\* the rows of the DataFrame, by position
RowIds(df) == [i \in 1..df.rows |-> i]

NotLoaded == [kind |-> "none", columns |-> <<>>, x_rows |-> <<>>, y_rows |-> <<>>]
CsvRaised(e) == [kind |-> e, columns |-> <<>>, x_rows |-> <<>>, y_rows |-> <<>>]

\* load_csv_dataset: the feature columns of X, and the rows X and y hold
LoadCsvDataset(df) ==
    LET found == {i \in DOMAIN LabelCandidates : LabelCandidates[i] \in ColumnNames(df)}
    IN IF found = {} THEN CsvRaised("ValueError")
       ELSE LET label_col == LabelCandidates[CHOOSE i \in found : \A j \in found : i <= j]
                drop_cols == {label_col} \cup (Range(TrainingIdentifiers) \cap ColumnNames(df))
                X == SelectNumber(DropColumns(df.columns, drop_cols))
            IN IF X = <<>> \/ df.rows = 0 THEN CsvRaised("ValueError")
               ELSE [kind |-> "ok", columns |-> NamesOf(X),
                     x_rows |-> RowIds(df), y_rows |-> RowIds(df)]

\* MainWindow._load_csv_features: the feature columns of the row returned
LoadCsvFeatures(df, row_index) ==
    LET numeric == SelectNumber(DropColumns(df.columns, Range(InferenceDropped)))
    IN IF numeric = <<>> \/ df.rows = 0 THEN CsvRaised("ValueError")
       ELSE IF row_index < 0 \/ row_index >= df.rows THEN CsvRaised("IndexError")
       ELSE [kind |-> "ok", columns |-> NamesOf(numeric),
             x_rows |-> <<row_index + 1>>, y_rows |-> <<>>]

NoCsv == [df |-> NoTable, train |-> NotLoaded, infer |-> NotLoaded]

\* The tables the loaders are given: each label and identifier column is
\* absent, numeric or text, next to one feature column, in two column orders,
\* with two data rows or none.
ColumnOrders ==
    {<<"name", "id", "subject", "f1", "status", "label", "target">>,
     <<"target", "label", "status", "f1", "subject", "id", "name">>}
ColumnKinds ==
    [{"status", "label", "target", "subject"} -> {"absent", "number", "text"}]
IdentifierKinds == [{"name", "id"} -> {"absent", "text"}]
FeatureKinds == [{"f1"} -> {"absent", "number"}]
Table(order, kinds, rows) ==
    LET present == SelectSeq(order, LAMBDA c : kinds[c] # "absent")
    IN [columns |-> [i \in DOMAIN present |-> Column(present[i], kinds[present[i]])],
        rows |-> rows]
Tables ==
    {t \in {Table(order, k @@ ik @@ f, rows) :
                order \in ColumnOrders, k \in ColumnKinds, ik \in IdentifierKinds,
                f \in FeatureKinds, rows \in {0, 2}} :
        t.columns # <<>>}

\* ------------------------------------------------------------------------
\* Dataset collection from folders (training/train_wav_model.py,
\* training/train_hf_wav_model.py)
\* ------------------------------------------------------------------------
\* label_map of collect_wav_files
WavLabelMap ==
    [healthy |-> 0, control |-> 0, parkinson |-> 1, parkinsons |-> 1, pd |-> 1]
\* label_map of collect_hf_wavs, in the order of its items()
HfFolders ==
    <<"28 People with Parkinson's disease", "22 Elderly Healthy Control",
      "15 Young Healthy Control">>
HfLabelMap == (HfFolders[1] :> 1) @@ (HfFolders[2] :> 0) @@ (HfFolders[3] :> 0)

\* label_dir.name.lower().strip(), on the folder names used here
LowerStrip(name) ==
    CASE name = "Healthy" -> "healthy"
      [] name = "PD " -> "pd"
      [] OTHER -> name

\* An entry of the root listing: its name, whether it is an existing
\* directory, and the .wav files rglob finds below it, in rglob's order.
\* A wav file either has samples or has none (extract_features raises).
WavFile(folder, k, content) == [path |-> <<folder, k>>, empty |-> content = "empty"]
Folder(name, dir, contents) ==
    [name |-> name, dir |-> dir,
     wavs |-> [k \in DOMAIN contents |-> WavFile(name, k, contents[k])]]

\* whether the loop of the collector passes over the entry
Skipped(kind, entry) ==
    IF kind = "wav"
    THEN ~entry.dir \/ LowerStrip(entry.name) \notin DOMAIN WavLabelMap
    ELSE ~entry.dir
\* the label the collector gives the wav files of a folder
LabelOfFolder(kind, name) ==
    IF kind = "wav" THEN WavLabelMap[LowerStrip(name)] ELSE HfLabelMap[name]

\* extract_features(str(path)) of a file with samples
FeatureRow(wav) == [of |-> wav.path]

NotCollected ==
    [kind |-> "none", pc |-> "idle", listing |-> <<>>, pending |-> <<>>, label |-> 0,
     files |-> <<>>, labels |-> <<>>, at |-> 0, rows |-> <<>>, X |-> <<>>]
Collecting(kind, listing) ==
    [NotCollected EXCEPT !.kind = kind, !.pc = "collect", !.listing = listing]

\* A build_feature_matrix that passes over the files extract_features rejects.
ExtractNext_SkipsFailures(c) ==
    LET wav == c.files[c.at + 1]
    IN IF wav.empty THEN [c EXCEPT !.at = c.at + 1]
       ELSE [c EXCEPT !.at = c.at + 1, !.rows = Append(c.rows, FeatureRow(wav))]

\* build_feature_matrix: one turn of the loop over files
ExtractNext(c) ==
    LET wav == c.files[c.at + 1]
    IN IF wav.empty THEN [c EXCEPT !.pc = "failed", !.rows = <<>>]
       ELSE [c EXCEPT !.at = c.at + 1, !.rows = Append(c.rows, FeatureRow(wav))]

\* The folders the collectors are run on
Contents ==
    {<<>>, <<"voiced">>, <<"empty">>, <<"voiced", "voiced">>, <<"empty", "voiced">>}
WavListings ==
    {<<Folder("Healthy", TRUE, h), Folder("PD ", TRUE, p),
       Folder("other", TRUE, o), Folder("notes.wav", FALSE, <<>>)>> :
        h \in Contents, p \in Contents, o \in {<<>>, <<"voiced">>}}
\* root.iterdir() yields the entries in any order
Orders(n) == {o \in [1..n -> 1..n] : \A i, j \in 1..n : o[i] = o[j] => i = j}
IterDir(listing) ==
    {[i \in DOMAIN listing |-> listing[o[i]]] : o \in Orders(Len(listing))}
\* each folder of label_map exists, with some content, or does not
HfFolderStates ==
    {[dir |-> TRUE, contents |-> c] : c \in Contents}
    \cup {[dir |-> FALSE, contents |-> <<>>]}
HfListings ==
    {[i \in DOMAIN HfFolders |-> Folder(HfFolders[i], st[i].dir, st[i].contents)] :
        st \in [DOMAIN HfFolders -> HfFolderStates]}

DatasetIdle ==
    /\ csv = NoCsv
    /\ collected = NotCollected

TrainIdle ==
    /\ PipelineIdle
    /\ DatasetIdle

\* ------------------------------------------------------------------------
\* The parts of the state a specification does not exercise stay at rest
\* ------------------------------------------------------------------------
PredictIdle ==
    /\ artifacts = [model |-> [has_proba |-> FALSE, has_decision |-> FALSE,
                               has_classes |-> TRUE, labels |-> IntBinary],
                    scaler |-> [n_features_in |-> 1]]
    /\ features = 0
    /\ reply = NoReply
    /\ result = NoResult
    /\ calls = <<>>
    /\ inflight = [t \in Callers |-> NotCalling]

ExtractIdle ==
    /\ signal = NoSignal
    /\ feat = NoFeat
    /\ level = NoLevel

\* MainWindow.__init__ before _build_ui and _load_model
ShellFields ==
    /\ audio_path = NoPath
    /\ csv_path = NoPath
    /\ predictor_audio = NoPredictor
    /\ predictor_csv = NoPredictor
    /\ history = <<>>
    /\ history_file = FileMissing
    /\ store_state = "constructed"
    /\ mode_index = 0
    /\ analyze_enabled = FALSE
    /\ page = 0
    /\ shown = NothingShown
    /\ quality = BlankQuality
    /\ run = NoRun
    /\ loaded = FALSE
    /\ load_error = FALSE

ShellIdle ==
    /\ files = {}
    /\ unloadable = {}
    /\ ShellFields

\* ------------------------------------------------------------------------
\* Specification of the prediction engine
\* ------------------------------------------------------------------------
\* load_artifacts: any persisted classifier/scaler pair
InitPredict ==
    /\ artifacts \in [model : Classifiers, scaler : Scalers]
    /\ features = 0
    /\ reply = NoReply
    /\ result = NoResult
    /\ calls = <<>>
    /\ inflight = [t \in Callers |-> NotCalling]
    /\ ExtractIdle
    /\ ShellIdle
    /\ TrainIdle

\* one call of predict_features
PredictFeatures ==
    \E n \in 1..MaxDim :
        \E r \in IF n = artifacts.scaler.n_features_in
                 THEN Replies(artifacts.model) ELSE {NoReply} :
            LET o == PredictFeaturesOutcome(artifacts, n, r) IN
            /\ features' = n
            /\ reply' = r
            /\ result' = o.result
            /\ calls' = o.calls
            /\ artifacts' = [artifacts EXCEPT
                                !.scaler = ScalerAfterTransform(artifacts.scaler, n)]
            /\ UNCHANGED <<inflight, extractVars, appVars, trainVars>>

NextPredict == PredictFeatures

SpecPredict == InitPredict /\ [][NextPredict]_vars

\* ------------------------------------------------------------------------
\* Properties of the prediction engine
\* ------------------------------------------------------------------------
Returned == result.kind = "ok"
ClassPD == PyStr(<<"P", "D">>)

\* The label rule as stated: a numeric class equal to 1, or a class whose
\* string form contains "park" in any case, is Parkinson's; all else healthy.
StatedLabel(c) ==
    IF c.py \in {"int", "float", "float32"} /\ c.v = 10 THEN ParkinsonLabel
    ELSE IF c.py = "str" /\ Contains(Park, Lower(c.v)) THEN ParkinsonLabel
    ELSE HealthyLabel

\* C2: every returned label follows the stated rule only: numeric class equal
\* to 1 or a string containing "park" gives "Likely Parkinson's", every other
\* class (0 and any other number included) gives "Likely Healthy".
C2_LabelByStatedRule == Returned => result.label = StatedLabel(reply.pred)

\* C3 (as stated): the predicted class "PD" is labelled "Likely Parkinson's".
C3_PdIsParkinson == (Returned /\ reply.pred = ClassPD) => result.label = ParkinsonLabel

\* C3 (amended): the predicted class "PD" is labelled "Likely Healthy", because
\* its lower-case form "pd" does not contain "park".
C3_PdIsHealthy == (Returned /\ reply.pred = ClassPD) => result.label = HealthyLabel

C3_PdPredicted == Returned /\ reply.pred = ClassPD /\ result.label = HealthyLabel

InCalls(name) == \E i \in DOMAIN calls : calls[i] = name

\* C4: the confidence comes from the first capability present: predict_proba
\* if the classifier has it, else decision_function if it has it, else the
\* constant 0.5; a later branch is never used when an earlier one is present.
C4_ConfidencePriority ==
    /\ artifacts.model.has_proba => ~InCalls("decision_function")
    /\ Returned =>
        /\ artifacts.model.has_proba =>
              calls = <<"transform", "predict", "predict_proba">>
        /\ (~artifacts.model.has_proba /\ artifacts.model.has_decision) =>
              calls = <<"transform", "predict", "decision_function">>
        /\ (~artifacts.model.has_proba /\ ~artifacts.model.has_decision) =>
              (calls = <<"transform", "predict">> /\ result.confidence = 500)

C4_BothCapabilities ==
    /\ Returned
    /\ artifacts.model.has_proba /\ artifacts.model.has_decision
    /\ InCalls("predict_proba")

\* C5: with predict_proba, the returned confidence is the probability at the
\* index of the predicted class among classes_; only without classes_ is it
\* the probability at the index of the maximum.
C5_ProbabilityOfPredictedClass ==
    (Returned /\ artifacts.model.has_proba) =>
        IF artifacts.model.has_classes
        THEN \E i \in DOMAIN artifacts.model.labels :
                /\ artifacts.model.labels[i] = reply.pred
                /\ result.confidence = reply.proba[i]
        ELSE result.confidence = MaxSeq(reply.proba)

C5_PredictedClassNotMostProbable ==
    /\ Returned /\ artifacts.model.has_proba /\ artifacts.model.has_classes
    /\ result.confidence < MaxSeq(reply.proba)

\* C6: a classifier with neither predict_proba nor decision_function gives
\* confidence exactly 0.5 for every vector and every predicted class.
C6_NeutralFallback ==
    (Returned /\ ~artifacts.model.has_proba /\ ~artifacts.model.has_decision) =>
        result.confidence = 500

C6_OpaqueClassifierReturned ==
    /\ Returned /\ ~artifacts.model.has_proba /\ ~artifacts.model.has_decision
    /\ result.label = ParkinsonLabel

\* C7: every returned confidence lies in [0,1] (0..1000 thousandths),
\* whichever branch produced it.
C7_ConfidenceInUnitInterval ==
    Returned => (result.confidence >= 0 /\ result.confidence <= 1000)

C7_SigmoidConfidence ==
    /\ Returned /\ InCalls("decision_function") /\ reply.scores.ndim = 1
    /\ result.confidence > 500

Occurrences(name) == Cardinality({i \in DOMAIN calls : calls[i] = name})

\* C13: a vector whose length differs from what the loaded scaler expects
\* makes predict_features raise at once: no PredictionResult comes back, the
\* only call made is the scaler's transform (the classifier is not invoked),
\* and the scaler is asked about the vector as it is, not cut or padded.
C13_DimensionMismatchRaises ==
    (features # 0 /\ features # artifacts.scaler.n_features_in) =>
        /\ result = Raised("ValueError")
        /\ calls = <<"transform">>
        /\ reply = NoReply

C13_WrongLengthRejected ==
    /\ features = 2 /\ artifacts.scaler.n_features_in = 1
    /\ result.kind = "raise"

\* C14: one call of predict_features invokes the scaler's transform and each
\* method of the classifier at most once, in the order transform, predict,
\* then the confidence method; when any of them raises, the call ends there
\* with the exception and without a PredictionResult.
C14_NoRetryErrorsPropagate ==
    features # 0 =>
        /\ \A name \in {"transform", "predict", "predict_proba", "decision_function"} :
              Occurrences(name) <= 1
        /\ Len(calls) <= 3 /\ calls[1] = "transform"
        /\ Len(calls) >= 2 => calls[2] = "predict"
        /\ reply.raises # "none" => result.kind = "raise"
        /\ reply.raises = "predict" => calls = <<"transform", "predict">>
        /\ result.kind = "raise" => (result.label = "" /\ result.confidence = 0)
        /\ result.kind \in {"ok", "raise"}

C14_ClassifierRaised ==
    /\ features # 0 /\ reply.raises = "predict"
    /\ result = Raised("Exception")
    /\ calls = <<"transform", "predict">>

\* ------------------------------------------------------------------------
\* Specification of concurrent callers of one predictor
\* ------------------------------------------------------------------------
\* The artifacts the concurrent specification loads: classifiers with
\* probabilities or without any confidence method
ConcurrentClassifiers ==
    {m \in Classifiers : m.labels \in {IntBinary, StrAbbrev} /\ ~m.has_decision}

InitConcurrent ==
    /\ artifacts \in [model : ConcurrentClassifiers, scaler : Scalers]
    /\ features = 0
    /\ reply = NoReply
    /\ result = NoResult
    /\ calls = <<>>
    /\ inflight = [t \in Callers |-> NotCalling]
    /\ ExtractIdle
    /\ ShellIdle
    /\ TrainIdle

\* caller t enters predict_features: reshape and scaler.transform
ScaleRow(t) ==
    /\ inflight[t].pc = "idle"
    /\ \E n \in 1..MaxDim :
        /\ inflight' = [inflight EXCEPT ![t] =
              IF n # artifacts.scaler.n_features_in
              THEN CallReturned(n, NoReply, PredictFeaturesOutcome(artifacts, n, NoReply))
              ELSE Scaled(n)]
        /\ artifacts' = [artifacts EXCEPT
                            !.scaler = ScalerAfterTransform(artifacts.scaler, n)]
    /\ UNCHANGED <<features, reply, result, calls, extractVars, appVars, trainVars>>

\* caller t goes on: model.predict, _confidence, _label_from_class, return
Classify(t) ==
    /\ inflight[t].pc = "scaled"
    /\ \E r \in Replies(artifacts.model) :
        inflight' = [inflight EXCEPT ![t] =
            CallReturned(inflight[t].n, r,
                         PredictFeaturesOutcome(artifacts, inflight[t].n, r))]
    /\ UNCHANGED <<artifacts, features, reply, result, calls, extractVars, appVars,
                   trainVars>>

\* caller t has its result or exception and may call again
CallAgain(t) ==
    /\ inflight[t].pc = "returned"
    /\ inflight' = [inflight EXCEPT ![t] = NotCalling]
    /\ UNCHANGED <<artifacts, features, reply, result, calls, extractVars, appVars,
                   trainVars>>

NextConcurrent ==
    \/ \E t \in Callers : ScaleRow(t)
    \/ \E t \in Callers : Classify(t)
    \/ \E t \in Callers : CallAgain(t)

SpecConcurrent == InitConcurrent /\ [][NextConcurrent]_vars

\* C22: no step of any sequence or interleaving of predict_features calls
\* changes the loaded classifier or scaler, no call fits anything, and what a
\* call returns or raises is what the artifact as loaded gives for that
\* call's own vector and classifier answer, whatever the other caller did.
C22_ArtifactFrozen ==
    [][/\ artifacts' = artifacts
       /\ \A t \in Callers :
            /\ \A i \in DOMAIN inflight'[t].calls :
                  inflight'[t].calls[i] \notin {"fit", "fit_transform", "partial_fit"}
            /\ inflight'[t].pc = "returned" =>
                  /\ (inflight'[t].n # artifacts.scaler.n_features_in) <=>
                        inflight'[t].result = Raised("ValueError")
                  /\ inflight'[t].result =
                        PredictFeaturesOutcome(artifacts, inflight'[t].n,
                                               inflight'[t].reply).result]_vars

C22_BothCallersReturned ==
    /\ inflight[1].pc = "returned" /\ inflight[1].result.kind = "ok"
    /\ inflight[2].pc = "returned" /\ inflight[2].result.kind = "raise"
    /\ inflight[2].n # inflight[1].n

\* ------------------------------------------------------------------------
\* Specification of the feature extractor
\* ------------------------------------------------------------------------
\* librosa.load has returned a signal; nothing extracted yet
InitExtract ==
    /\ signal \in Signals
    /\ feat = NoFeat
    /\ level = NoLevel
    /\ PredictIdle
    /\ ShellIdle
    /\ TrainIdle

\* one call of extract_features
Extract ==
    /\ feat.kind = "none"
    /\ feat' = ExtractFeatures(signal)
    /\ UNCHANGED <<signal, level, predVars, appVars, trainVars>>

NextExtract == Extract

SpecExtract == InitExtract /\ [][NextExtract]_vars

\* ------------------------------------------------------------------------
\* Specification of model loading at start-up
\* ------------------------------------------------------------------------
\* MainWindow.__init__ up to the call of _load_model, on any file system
InitLoad ==
    /\ \E fs \in FileSystems : files = fs.files /\ unloadable = fs.unloadable
    /\ ShellFields
    /\ PredictIdle
    /\ ExtractIdle
    /\ TrainIdle

\* _load_model
LoadModelStep ==
    /\ ~loaded
    /\ LET m == LoadModel([files |-> files, unloadable |-> unloadable]) IN
        /\ predictor_audio' = m.audio
        /\ predictor_csv' = m.csv
        /\ load_error' = m.error
    /\ loaded' = TRUE
    /\ UNCHANGED <<files, unloadable, mode_index, audio_path, csv_path,
                   analyze_enabled, page, history, history_file, store_state, shown, quality,
                       run, predVars,
                   extractVars, trainVars>>

NextLoad == LoadModelStep

SpecLoad == InitLoad /\ [][NextLoad]_vars

\* ------------------------------------------------------------------------
\* Specification of the running window
\* ------------------------------------------------------------------------
\* Artifact pairs are complete or absent here; SpecLoad covers single files.
PairedFileSystems ==
    {fs \in FileSystems :
        /\ fs.unloadable = {}
        /\ (audio_model \in fs.files) = (audio_scaler \in fs.files)
        /\ (csv_model \in fs.files) = (csv_scaler \in fs.files)
        /\ (default_model \in fs.files) = (default_scaler \in fs.files)}

\* MainWindow() constructed: fields set, _build_ui (which runs _switch_mode
\* and _set_page(0) before any predictor exists), then _load_model
Init ==
    /\ \E fs \in PairedFileSystems :
        /\ files = fs.files
        /\ unloadable = fs.unloadable
        /\ predictor_audio = LoadModel(fs).audio
        /\ predictor_csv = LoadModel(fs).csv
        /\ load_error = LoadModel(fs).error
    /\ loaded = TRUE
    /\ audio_path = NoPath
    /\ csv_path = NoPath
    /\ history_file = FileMissing
    /\ history = HistoryLoad(history_file).entries
    /\ store_state = "constructed"
    /\ mode_index = 0
    /\ analyze_enabled = RefreshAnalyzeState(0, NoPredictor, NoPredictor)
    /\ page = 0
    /\ shown = NothingShown
    /\ quality = BlankQuality
    /\ run = NoRun
    /\ PredictIdle
    /\ ExtractIdle
    /\ TrainIdle

\* mode_combo.currentIndexChanged -> _switch_mode
SwitchMode ==
    \E i \in {0, 1} :
        /\ i # mode_index
        /\ mode_index' = i
        /\ analyze_enabled' = RefreshAnalyzeState(i, predictor_audio, predictor_csv)
        /\ IF i # 0
           THEN quality' = UpdateQualityView(NoPath, NoSignal, NoLevel, quality)
           ELSE IF audio_path # NoPath
           THEN \E rec \in ShellRecordings :
                    quality' = UpdateQualityView(audio_path, rec.signal, rec.level, quality)
           ELSE UNCHANGED quality
        /\ UNCHANGED <<files, unloadable, loaded, load_error, predictor_audio,
                       predictor_csv, audio_path, csv_path, page, history, history_file, store_state, shown,
                       run, predVars, extractVars, trainVars>>

\* upload_btn.clicked -> _select_file; the dialog may be cancelled
SelectFile ==
    \E file_path \in {NoPath, SelectedWav} :
        /\ IF file_path = NoPath
           THEN UNCHANGED <<audio_path, quality, analyze_enabled>>
           ELSE /\ audio_path' = file_path
                /\ \E rec \in ShellRecordings :
                      quality' = UpdateQualityView(file_path, rec.signal, rec.level, quality)
                /\ analyze_enabled' =
                      RefreshAnalyzeState(mode_index, predictor_audio, predictor_csv)
        /\ UNCHANGED <<files, unloadable, loaded, load_error, predictor_audio,
                       predictor_csv, mode_index, csv_path, page, history, history_file, store_state, shown,
                       run, predVars, extractVars, trainVars>>

\* csv_btn.clicked -> _select_csv; the dialog may be cancelled
SelectCsv ==
    \E file_path \in {NoPath, SelectedCsv} :
        /\ IF file_path = NoPath
           THEN UNCHANGED <<csv_path, quality, analyze_enabled>>
           ELSE /\ csv_path' = file_path
                /\ quality' = UpdateQualityView(NoPath, NoSignal, NoLevel, quality)
                /\ analyze_enabled' =
                      RefreshAnalyzeState(mode_index, predictor_audio, predictor_csv)
        /\ UNCHANGED <<files, unloadable, loaded, load_error, predictor_audio,
                       predictor_csv, mode_index, audio_path, page, history, history_file, store_state, shown,
                       run, predVars, extractVars, trainVars>>

\* record_btn.clicked -> _record_audio; recording may fail
RecordAudio ==
    \E recorded \in BOOLEAN :
        /\ IF recorded
           THEN /\ audio_path' = RecordedWav
                /\ \E rec \in ShellRecordings :
                      quality' = UpdateQualityView(RecordedWav, rec.signal, rec.level, quality)
                /\ analyze_enabled' =
                      RefreshAnalyzeState(mode_index, predictor_audio, predictor_csv)
           ELSE UNCHANGED <<audio_path, quality, analyze_enabled>>
        /\ UNCHANGED <<files, unloadable, loaded, load_error, predictor_audio,
                       predictor_csv, mode_index, csv_path, page, history, history_file, store_state, shown,
                       run, predVars, extractVars, trainVars>>

\* nav_group.buttonClicked -> _on_nav_clicked, and _go_to_record_page
SetPage ==
    \E index \in 0..4 :
        /\ page' = index
        /\ UNCHANGED <<files, unloadable, loaded, load_error, predictor_audio,
                       predictor_csv, mode_index, audio_path, csv_path,
                       analyze_enabled, history, history_file, store_state, shown, quality,
                       run, predVars,
                       extractVars, trainVars>>

\* _run_analysis
RunAnalysis ==
    \E o \in AnalysisOutcomes :
        LET e == RunAnalysisEffect(mode_index, audio_path, csv_path, predictor_audio,
                                   predictor_csv, o, history, shown, page) IN
        /\ Len(e.history) <= MaxHistory
        /\ history' = e.history
        /\ IF e.run.entry_added
           THEN \E write \in IF o.kind = "save_raise" THEN {"refused"} ELSE {"ok"} :
                    history_file' = HistorySave(e.history, history_file, write)
           ELSE UNCHANGED history_file
        /\ shown' = e.shown
        /\ page' = e.page
        /\ run' = [e.run EXCEPT !.changed =
                      \/ e.history # history
                      \/ history_file' # history_file
                      \/ e.shown # shown
                      \/ e.page # page]
        /\ UNCHANGED <<files, unloadable, loaded, load_error, predictor_audio,
                       predictor_csv, mode_index, audio_path, csv_path,
                       analyze_enabled, store_state, quality, predVars, extractVars,
                       trainVars>>

Next ==
    \/ SwitchMode
    \/ SelectFile
    \/ SelectCsv
    \/ RecordAudio
    \/ SetPage
    \/ RunAnalysis

Spec == Init /\ [][Next]_vars

\* ------------------------------------------------------------------------
\* Specification of the quality scorer next to the extractor
\* ------------------------------------------------------------------------
\* librosa.load has returned the signal of a recording; the panel is blank as
\* _build_ui leaves it
InitQuality ==
    /\ \E rec \in Recordings : signal = rec.signal /\ level = rec.level
    /\ feat = NoFeat
    /\ files = {}
    /\ unloadable = {}
    /\ ShellFields
    /\ PredictIdle
    /\ TrainIdle

\* one call of _update_quality_view, without a path or with the recording's
ScoreRecording ==
    \E path \in {NoPath, SelectedWav} :
        /\ quality' = UpdateQualityView(path, signal, level, quality)
        /\ UNCHANGED <<files, unloadable, loaded, load_error, predictor_audio,
                       predictor_csv, mode_index, audio_path, csv_path,
                       analyze_enabled, page, history, history_file, store_state, shown, run, predVars,
                       extractVars, trainVars>>

NextQuality ==
    \/ Extract
    \/ ScoreRecording

SpecQuality == InitQuality /\ [][NextQuality]_vars

\* ------------------------------------------------------------------------
\* Specification of the history store
\* ------------------------------------------------------------------------
\* before HistoryStore(HISTORY_PATH), whatever data/history.json holds
InitHistory ==
    /\ history_file \in HistoryFiles
    /\ history = <<>>
    /\ store_state = "none"
    /\ files = {}
    /\ unloadable = {}
    /\ audio_path = NoPath
    /\ csv_path = NoPath
    /\ predictor_audio = NoPredictor
    /\ predictor_csv = NoPredictor
    /\ mode_index = 0
    /\ analyze_enabled = FALSE
    /\ page = 0
    /\ shown = NothingShown
    /\ quality = BlankQuality
    /\ run = NoRun
    /\ loaded = FALSE
    /\ load_error = FALSE
    /\ PredictIdle
    /\ ExtractIdle
    /\ TrainIdle

HistoryOthers ==
    <<files, unloadable, loaded, load_error, predictor_audio, predictor_csv,
      mode_index, audio_path, csv_path, analyze_enabled, page, shown, quality, run,
      predVars, extractVars, trainVars>>

\* HistoryStore.__init__
ConstructStore ==
    /\ store_state = "none"
    /\ LET l == HistoryLoad(history_file) IN
        /\ history' = l.entries
        /\ store_state' = IF l.raised THEN "failed" ELSE "constructed"
    /\ UNCHANGED <<history_file, HistoryOthers>>

\* HistoryStore.add
AddEntry ==
    /\ store_state \in {"constructed", "added"}
    /\ Len(history) <= MaxHistory
    /\ \E entry \in SampleEntries, write \in Writes :
        LET a == HistoryAdd(history, history_file, entry, write) IN
        /\ history' = a.entries
        /\ history_file' = a.file
        /\ store_state' = "added"
    /\ UNCHANGED HistoryOthers

NextHistory ==
    \/ ConstructStore
    \/ AddEntry

SpecHistory == InitHistory /\ [][NextHistory]_vars

\* ------------------------------------------------------------------------
\* Specification of dataset loading
\* ------------------------------------------------------------------------
\* One table before either loader has read it, or one folder tree before a
\* collector has walked it
InitDataset ==
    /\ \/ /\ \E t \in Tables : csv = [NoCsv EXCEPT !.df = t]
          /\ collected = NotCollected
       \/ /\ csv = NoCsv
          /\ \/ \E l \in WavListings : \E listing \in IterDir(l) :
                    collected = Collecting("wav", listing)
             \/ \E listing \in HfListings : collected = Collecting("hf", listing)
    /\ PipelineIdle
    /\ PredictIdle
    /\ ExtractIdle
    /\ ShellIdle

DatasetOthers ==
    <<predVars, extractVars, appVars, tpc, data, train_idx, test_idx, scaler,
      scaler_full, svc, accuracy, disk>>

\* load_csv_dataset(path)
LoadDataset ==
    /\ csv.df # NoTable
    /\ csv.train = NotLoaded
    /\ csv' = [csv EXCEPT !.train = LoadCsvDataset(csv.df)]
    /\ UNCHANGED <<collected, DatasetOthers>>

\* _load_csv_features(file_path, row_spin.value())
LoadFeatures ==
    /\ csv.df # NoTable
    /\ csv.infer = NotLoaded
    /\ \E row_index \in {0, csv.df.rows} :
          csv' = [csv EXCEPT !.infer = LoadCsvFeatures(csv.df, row_index)]
    /\ UNCHANGED <<collected, DatasetOthers>>

\* the outer loop of the collector: the next entry of the listing
NextFolder ==
    /\ collected.pc = "collect"
    /\ collected.pending = <<>>
    /\ collected.listing # <<>>
    /\ LET entry == Head(collected.listing) IN
          collected' =
             IF Skipped(collected.kind, entry)
             THEN [collected EXCEPT !.listing = Tail(collected.listing)]
             ELSE [collected EXCEPT !.listing = Tail(collected.listing),
                                    !.pending = entry.wavs,
                                    !.label = LabelOfFolder(collected.kind, entry.name)]
    /\ UNCHANGED <<csv, DatasetOthers>>

\* the inner loop: files.append(wav_path); labels.append(label)
AppendWav ==
    /\ collected.pc = "collect"
    /\ collected.pending # <<>>
    /\ collected' = [collected EXCEPT
                        !.pending = Tail(collected.pending),
                        !.files = Append(collected.files, Head(collected.pending)),
                        !.labels = Append(collected.labels, collected.label)]
    /\ UNCHANGED <<csv, DatasetOthers>>

\* if not files: raise ValueError; return files, labels
CheckFiles ==
    /\ collected.pc = "collect"
    /\ collected.pending = <<>>
    /\ collected.listing = <<>>
    /\ collected' = [collected EXCEPT
                        !.pc = IF collected.files = <<>> THEN "failed" ELSE "extract"]
    /\ UNCHANGED <<csv, DatasetOthers>>

\* build_feature_matrix: features.append(extract_features(str(path)))
ExtractFile ==
    /\ collected.pc = "extract"
    /\ collected.at < Len(collected.files)
    /\ collected' = ExtractNext(collected)
    /\ UNCHANGED <<csv, DatasetOthers>>

\* build_feature_matrix: return np.vstack(features)
Stack ==
    /\ collected.pc = "extract"
    /\ collected.at = Len(collected.files)
    /\ collected' = [collected EXCEPT !.pc = "done", !.X = collected.rows]
    /\ UNCHANGED <<csv, DatasetOthers>>

NextDataset ==
    \/ LoadDataset
    \/ LoadFeatures
    \/ NextFolder
    \/ AppendWav
    \/ CheckFiles
    \/ ExtractFile
    \/ Stack

SpecDataset == InitDataset /\ [][NextDataset]_vars

\* ------------------------------------------------------------------------
\* Specification of train_and_save
\* ------------------------------------------------------------------------
\* train_and_save(X, y, out_dir) is entered; out_dir may hold earlier artifacts
InitTrain ==
    /\ tpc = "mkdir"
    /\ data \in Datasets
    /\ train_idx = {}
    /\ test_idx = {}
    /\ scaler = Unfitted
    /\ scaler_full = Unfitted
    /\ svc = Untrained
    /\ accuracy = NotReported
    /\ disk \in {[model_file |-> Absent, scaler_file |-> Absent],
                 [model_file |-> Stale, scaler_file |-> Stale]}
    /\ DatasetIdle
    /\ PredictIdle
    /\ ExtractIdle
    /\ ShellIdle

TrainOthers == <<predVars, extractVars, appVars, csv, collected>>

\* out_dir.mkdir(parents=True, exist_ok=True)
Mkdir ==
    /\ tpc = "mkdir"
    /\ \E made \in BOOLEAN : tpc' = IF made THEN "split" ELSE "failed"
    /\ UNCHANGED <<data, train_idx, test_idx, scaler, scaler_full, svc, accuracy, disk, TrainOthers>>

\* splitter.split and the four partitions
Split ==
    /\ tpc = "split"
    /\ IF SplitRaises(data)
       THEN tpc' = "failed" /\ UNCHANGED <<train_idx, test_idx>>
       ELSE \E t \in TestPartitions(data) :
                /\ test_idx' = t
                /\ train_idx' = AllRows(data) \ t
                /\ tpc' = "scale_holdout"
    /\ UNCHANGED <<data, scaler, scaler_full, svc, accuracy, disk, TrainOthers>>

\* scaler.fit_transform(X_train); scaler.transform(X_test)
ScaleHoldout ==
    /\ tpc = "scale_holdout"
    /\ scaler' = FittedScaler("scaler", HoldoutFitRows(train_idx, test_idx))
    /\ tpc' = "fit_holdout"
    /\ UNCHANGED <<data, train_idx, test_idx, scaler_full, svc, accuracy, disk, TrainOthers>>

\* model.fit(X_train_scaled, y_train)
FitHoldout ==
    /\ tpc = "fit_holdout"
    /\ IF FitRaises(data, train_idx)
       THEN tpc' = "failed" /\ UNCHANGED svc
       ELSE svc' = FittedModel(train_idx, scaler) /\ tpc' = "evaluate"
    /\ UNCHANGED <<data, train_idx, test_idx, scaler, scaler_full, accuracy, disk, TrainOthers>>

\* accuracy on the scaled test partition, printed
Evaluate ==
    /\ tpc = "evaluate"
    /\ accuracy' = HoldoutAccuracy(svc, scaler, test_idx)
    /\ tpc' = "scale_full"
    /\ UNCHANGED <<data, train_idx, test_idx, scaler, scaler_full, svc, disk, TrainOthers>>

\* scaler_full = StandardScaler().fit(X); scaler_full.transform(X)
ScaleFull ==
    /\ tpc = "scale_full"
    /\ scaler_full' = FittedScaler("scaler_full", AllRows(data))
    /\ tpc' = "fit_full"
    /\ UNCHANGED <<data, train_idx, test_idx, scaler, svc, accuracy, disk, TrainOthers>>

\* A refit that dumps the classifier before it fits it.
FitFull_DumpsFirst ==
    /\ tpc = "fit_full"
    /\ svc' = FittedModel(AllRows(data), scaler_full)
    /\ disk' = [disk EXCEPT !.model_file = ModelFile(svc)]
    /\ tpc' = "dump_scaler"
    /\ UNCHANGED <<data, train_idx, test_idx, scaler, scaler_full, accuracy, TrainOthers>>

\* model.fit(X_full_scaled, y)
FitFull ==
    /\ tpc = "fit_full"
    /\ IF FitRaises(data, AllRows(data))
       THEN tpc' = "failed" /\ UNCHANGED svc
       ELSE svc' = FittedModel(AllRows(data), scaler_full) /\ tpc' = "dump_model"
    /\ UNCHANGED <<data, train_idx, test_idx, scaler, scaler_full, accuracy, disk, TrainOthers>>

\* joblib.dump(model, out_dir / "model_*.joblib"); a failed write leaves the
\* file as it was or cut short
DumpModel ==
    /\ tpc = "dump_model"
    /\ \/ disk' = [disk EXCEPT !.model_file = ModelFile(svc)] /\ tpc' = "dump_scaler"
       \/ \E left \in {disk.model_file, Partial} :
            disk' = [disk EXCEPT !.model_file = left] /\ tpc' = "failed"
    /\ UNCHANGED <<data, train_idx, test_idx, scaler, scaler_full, svc, accuracy, TrainOthers>>

\* joblib.dump(scaler_full, out_dir / "scaler_*.joblib")
DumpScaler ==
    /\ tpc = "dump_scaler"
    /\ \/ /\ disk' = [disk EXCEPT !.scaler_file =
                         ScalerFile(DumpedScaler(scaler, scaler_full))]
          /\ tpc' = "done"
       \/ \E left \in {disk.scaler_file, Partial} :
            disk' = [disk EXCEPT !.scaler_file = left] /\ tpc' = "failed"
    /\ UNCHANGED <<data, train_idx, test_idx, scaler, scaler_full, svc, accuracy, TrainOthers>>

NextTrain ==
    \/ Mkdir
    \/ Split
    \/ ScaleHoldout
    \/ FitHoldout
    \/ Evaluate
    \/ ScaleFull
    \/ FitFull
    \/ DumpModel
    \/ DumpScaler

SpecTrain == InitTrain /\ [][NextTrain]_vars

\* C1 (as stated): every vector extracted from a non-empty signal has exactly
\* 48 values.
C1_Length48 == feat.kind = "ok" => Len(feat.vector) = 48

\* C1 (amended): every vector extracted from a non-empty signal has exactly
\* 57 values, whatever the length or content of the signal: 13 + 13 MFCC
\* statistics, 7 pitch values, 10 spectral scalars and 7 + 7 spectral-contrast
\* statistics.
C1_Length57 ==
    /\ feat.kind = "ok" => Len(feat.vector) = 57
    /\ (feat.kind # "none" /\ signal.len > 0) => feat.kind = "ok"

C1_ExtractedSeveralFrames ==
    /\ feat.kind = "ok"
    /\ Len(signal.pitch) > 1
    /\ \E i \in DOMAIN signal.pitch : signal.pitch[i] = NonFinite

\* ------------------------------------------------------------------------
\* Properties of the desktop shell
\* ------------------------------------------------------------------------
AudioPairMissing == audio_model \notin files \/ audio_scaler \notin files
CsvPairMissing == csv_model \notin files \/ csv_scaler \notin files
DefaultPairLoads ==
    /\ default_model \in files /\ default_scaler \in files
    /\ default_model \notin unloadable /\ default_scaler \notin unloadable

\* C8 (as stated): if either file of a mode's pair is missing at start-up, the
\* mode's predictor is None once model loading has completed.
C8_MissingFileDisablesMode ==
    loaded =>
        /\ AudioPairMissing => predictor_audio = NoPredictor
        /\ CsvPairMissing => predictor_csv = NoPredictor

\* C8 (amended): if either file of a mode's pair is missing at start-up, the
\* mode's predictor is None once model loading has completed, unless both
\* fallback files model.joblib and scaler.joblib exist and load: then the mode
\* gets a predictor over that default pair.
C8_MissingFileDisablesModeUnlessDefault ==
    loaded =>
        /\ (AudioPairMissing /\ ~DefaultPairLoads) => predictor_audio = NoPredictor
        /\ (CsvPairMissing /\ ~DefaultPairLoads) => predictor_csv = NoPredictor
        /\ (AudioPairMissing /\ DefaultPairLoads) =>
              predictor_audio = Predictor(default_model, default_scaler)
        /\ (CsvPairMissing /\ DefaultPairLoads) =>
              predictor_csv = Predictor(default_model, default_scaler)

C8_OnlyScalerMissing ==
    /\ loaded
    /\ audio_model \in files /\ audio_scaler \notin files
    /\ predictor_audio = NoPredictor
    /\ predictor_csv = Predictor(csv_model, csv_scaler)

\* C9: whenever the predictor of the selected mode is None, _run_analysis ends
\* with the "No file" or "Model Missing" box, calls neither the feature
\* readers nor the scaler nor the classifier, produces no PredictionResult
\* and adds no history entry.
C9_NullPredictorFailsFast ==
    (run.state = "done" /\ run.null_predictor) =>
        /\ run.dialog \in {"No file", "Model Missing"}
        /\ run.calls = <<>>
        /\ run.result = NoResult
        /\ ~run.entry_added

C9_ModelMissingShown ==
    /\ run.state = "done" /\ run.null_predictor
    /\ run.dialog = "Model Missing"
    /\ mode_index = 1 /\ csv_path # NoPath
    /\ predictor_audio # NoPredictor

\* ------------------------------------------------------------------------
\* Properties of the training pipeline
\* ------------------------------------------------------------------------
\* C10: the pair train_and_save persists is consistent: the persisted scaler
\* is the one fitted on the entire dataset, and the last fit of the persisted
\* classifier used the data transformed by that very scaler, never the
\* holdout scaler.
C10_PersistedPairConsistent ==
    tpc = "done" =>
        /\ disk.model_file.state = "written" /\ disk.scaler_file.state = "written"
        /\ disk.scaler_file.scaler.fitted_on = AllRows(data)
        /\ disk.model_file.model.fitted
        /\ disk.model_file.model.rows = AllRows(data)
        /\ disk.model_file.model.scaled_by = disk.scaler_file.scaler
        /\ disk.scaler_file.scaler # scaler

C10_SavedAfterHoldout ==
    /\ tpc = "done"
    /\ scaler.fitted_on = train_idx /\ test_idx # {}
    /\ disk.scaler_file.scaler.fitted_on # scaler.fitted_on

\* C11: when the dataset has fewer than two classes, training aborts before
\* any scaler fit or classifier fit is attempted and no artifact is produced:
\* no scaler is ever fitted, the classifier is never fitted, the run never
\* completes and no file is written.
C11_AbortsBeforeAnyFit ==
    Cardinality(ClassesOf(data, AllRows(data))) < 2 =>
        /\ tpc # "done"
        /\ scaler = Unfitted /\ scaler_full = Unfitted
        /\ svc = Untrained
        /\ disk.model_file.state # "written" /\ disk.scaler_file.state # "written"

\* C12: the scaler behind the reported holdout accuracy is fitted on the
\* training partition only: no test row is among the rows it was fitted on,
\* the classifier that predicted was fitted on the training rows scaled by
\* it, and the two partitions are disjoint and together cover the dataset.
C12_HoldoutScalerSeesTrainOnly ==
    /\ scaler # Unfitted =>
          (scaler.fitted_on = train_idx /\ scaler.fitted_on \cap test_idx = {})
    /\ tpc \notin {"mkdir", "split", "failed"} =>
          (train_idx \cap test_idx = {} /\ train_idx \cup test_idx = AllRows(data))
    /\ accuracy.reported =>
          /\ accuracy.scaled_by.fitted_on = train_idx
          /\ accuracy.scaled_by.fitted_on \cap accuracy.rows = {}
          /\ accuracy.rows = test_idx
          /\ accuracy.model = FittedModel(train_idx, accuracy.scaled_by)
          /\ train_idx \cap test_idx = {}
          /\ train_idx \cup test_idx = AllRows(data)

C12_AccuracyReported ==
    /\ accuracy.reported
    /\ Cardinality(accuracy.rows) >= 2
    /\ Cardinality(accuracy.scaled_by.fitted_on) >= 2

\* ------------------------------------------------------------------------
\* Properties of the feature vector's layout and pitch block
\* ------------------------------------------------------------------------
\* The statistic at position k of a vector with `bands` spectral-contrast
\* rows, in the stated order.
StatedPosition(k, bands) ==
    IF k <= 13 THEN <<"mfcc_mean", k>>
    ELSE IF k <= 26 THEN <<"mfcc_std", k - 13>>
    ELSE IF k <= 33
    THEN <<<<"pitch_mean", "pitch_std", "pitch_min", "pitch_max", "pitch_median",
             "pitch_range", "voiced_ratio">>[k - 26], 1>>
    ELSE IF k <= 43
    THEN <<<<"centroid_mean", "centroid_std", "bandwidth_mean", "bandwidth_std",
             "rolloff_mean", "rolloff_std", "flatness_mean", "flatness_std",
             "rms_mean", "rms_std">>[k - 33], 1>>
    ELSE IF k <= 43 + bands THEN <<"contrast_mean", k - 43>>
    ELSE <<"contrast_std", k - 43 - bands>>

InStatedOrder(vector, bands) ==
    \A k \in DOMAIN vector :
        <<vector[k].name, vector[k].i>> = StatedPosition(k, bands)

\* C15 (as stated): every extracted vector has 48 values, in the order 13 MFCC
\* means, 13 MFCC stds, the pitch block (mean, std, min, max, median, range,
\* voiced ratio), (mean, std) of centroid, bandwidth, rolloff, flatness and
\* RMS, all spectral-contrast band means, all spectral-contrast band stds.
C15_FixedOrderOf48 ==
    feat.kind = "ok" =>
        /\ Len(feat.vector) = 48
        /\ \E bands \in 1..8 : InStatedOrder(feat.vector, bands)

\* C15 (amended): every extracted vector has 57 values, in the order 13 MFCC
\* means, 13 MFCC stds, the pitch block (mean, std, min, max, median, range,
\* voiced ratio), (mean, std) of centroid, bandwidth, rolloff, flatness and
\* RMS, the seven spectral-contrast band means, the seven spectral-contrast
\* band stds; the order is the same for every input.
C15_FixedOrderOf57 ==
    feat.kind = "ok" =>
        /\ Len(feat.vector) = 57
        /\ InStatedOrder(feat.vector, 7)

C15_VoicedVectorExtracted ==
    /\ feat.kind = "ok"
    /\ feat.vector[27].v > 0
    /\ feat.vector[57].name = "contrast_std"

\* C17: for an all-zero signal the extracted voiced ratio is 0 and all seven
\* values of the pitch block are 0.
C17_SilenceHasZeroPitchBlock ==
    (feat.kind = "ok" /\ signal.silent) =>
        \A k \in 27..33 : feat.vector[k].v = 0

VoicedFrames == Cardinality({i \in DOMAIN signal.pitch : signal.pitch[i] # NonFinite})

\* C18: the voiced ratio (in millionths) is the number of frames with a
\* finite pitch estimate divided by the number of samples of the signal, not
\* by the number of frames, and lies in [0,1].
C18_VoicedRatioPerSample ==
    feat.kind = "ok" =>
        /\ feat.vector[33].name = "voiced_ratio"
        /\ feat.vector[33].v = (VoicedFrames * 1000000) \div signal.len
        /\ feat.vector[33].v >= 0 /\ feat.vector[33].v <= 1000000

C18_FewerVoicedFramesThanSamples ==
    /\ feat.kind = "ok"
    /\ Len(signal.pitch) >= 2 /\ VoicedFrames >= 1 /\ VoicedFrames < Len(signal.pitch)
    /\ feat.vector[33].v < 1000000 \div Len(signal.pitch)

\* ------------------------------------------------------------------------
\* Properties of the quality scorer
\* ------------------------------------------------------------------------
\* C16: on a signal without samples extract_features and the quality scorer
\* each fail with the empty-signal error before any feature or metric is
\* computed, and neither a vector nor metrics come back.
C16_EmptySignalRaisesFirst ==
    signal.len = 0 =>
        /\ feat.kind # "none" =>
              (feat.kind = "raise" /\ feat.steps = <<>> /\ feat.vector = <<>>)
        /\ quality.metrics.kind # "none" =>
              /\ quality.metrics.kind = "raise"
              /\ quality.metrics.steps = <<>>
              /\ quality.status = "Unavailable"

C16_BothRaisedOnEmpty ==
    /\ signal.len = 0
    /\ feat.kind = "raise"
    /\ quality.metrics.kind = "raise"

\* C19: each of the three scores the scorer returns for a non-empty signal
\* is a whole number within 0..100, also for a zero RMS and for an RMS above
\* the upper end of the rescaling range.
C19_ScoresWithin0To100 ==
    quality.metrics.kind = "ok" =>
        /\ quality.metrics.volume \in 0..100
        /\ quality.metrics.clarity \in 0..100
        /\ quality.metrics.noise \in 0..100
        /\ level.rms_mean = 0 => quality.metrics.volume = 0
        /\ level.rms_mean >= VolumeHigh => quality.metrics.volume = 100

C19_SaturatedRmsScored ==
    /\ quality.metrics.kind = "ok"
    /\ level.rms_mean > VolumeHigh
    /\ quality.metrics.volume = 100
    /\ quality.metrics.noise = 0

ScoreTotal == quality.metrics.volume + quality.metrics.clarity + quality.metrics.noise

\* C20 (as stated): the rating is "Excellent" exactly when the average of
\* the three scores is at least 80 (their sum at least 240), "Acceptable"
\* exactly when it is at least 60 and below 80, "Needs Improvement" otherwise.
C20_RatingByAverage ==
    quality.metrics.kind = "ok" =>
        /\ quality.status = "Excellent" <=> ScoreTotal >= 240
        /\ quality.status = "Acceptable" <=> (ScoreTotal >= 180 /\ ScoreTotal < 240)
        /\ quality.status = "Needs Improvement" <=> ScoreTotal < 180

\* C20 (amended): the rating is "Excellent" exactly when the average of the
\* three scores, rounded to the nearest whole number, is at least 80 (the
\* average itself at least 79.5), "Acceptable" exactly when the rounded
\* average is at least 60 and below 80, "Needs Improvement" otherwise.
C20_RatingByRoundedAverage ==
    quality.metrics.kind = "ok" =>
        /\ quality.status = "Excellent" <=> 2 * ScoreTotal >= 3 * 159
        /\ quality.status = "Acceptable" <=>
              (2 * ScoreTotal >= 3 * 119 /\ 2 * ScoreTotal < 3 * 159)
        /\ quality.status = "Needs Improvement" <=> 2 * ScoreTotal < 3 * 119

C20_ExcellentBelow80 ==
    /\ quality.metrics.kind = "ok"
    /\ ScoreTotal = 239
    /\ quality.status = "Excellent"

\* ------------------------------------------------------------------------
\* Properties of the order of train_and_save
\* ------------------------------------------------------------------------
BeforeDumps ==
    {"mkdir", "split", "scale_holdout", "fit_holdout", "evaluate", "scale_full",
     "fit_full"}

\* C27: no step up to and including the full-data refit creates or modifies
\* an artifact file, whether it completes or raises; the first file written
\* holds the classifier of the completed refit, and the scaler file is
\* touched only once the classifier file is written.
C27_DumpsComeLast ==
    [][/\ tpc \in BeforeDumps => disk' = disk
       /\ disk'.model_file # disk.model_file =>
             (tpc = "dump_model" /\ accuracy.reported /\ svc.rows = AllRows(data))
       /\ disk'.scaler_file # disk.scaler_file =>
             (tpc = "dump_scaler" /\ disk.model_file = ModelFile(svc))]_vars

C27_HoldoutFitRaisedFilesKept ==
    /\ tpc = "failed"
    /\ scaler # Unfitted /\ svc = Untrained
    /\ disk = [model_file |-> Stale, scaler_file |-> Stale]

\* ------------------------------------------------------------------------
\* Properties of the Analyze button
\* ------------------------------------------------------------------------
\* C23: once the window is constructed, and after any mode switches, file
\* selections and recordings, the Analyze button is enabled exactly when the
\* predictor of the selected mode is loaded.
C23_AnalyzeEnabledIffLoaded ==
    analyze_enabled <=> RefreshAnalyzeState(mode_index, predictor_audio, predictor_csv)

\* ------------------------------------------------------------------------
\* Properties of a failed analysis run
\* ------------------------------------------------------------------------
\* C25: a run that ends without a PredictionResult (the reader, the scaler
\* or the classifier raised, or a guard returned early) leaves the history
\* entries, the history file, the displayed label and confidence and the
\* current page as they were; an entry is added only with a result in hand.
C25_FailedRunChangesNothing ==
    /\ (run.state = "done" /\ run.result = NoResult) =>
           (~run.changed /\ ~run.entry_added)
    /\ run.entry_added => (run.result # NoResult /\ Len(history) > 0)

C25_RunFailedAfterEarlierResult ==
    /\ run.state = "done"
    /\ run.dialog = "Analysis Error"
    /\ run.result = NoResult
    /\ Len(run.calls) = 2
    /\ history # <<>>
    /\ shown # NothingShown
    /\ page = 3

\* ------------------------------------------------------------------------
\* Properties of the history store
\* ------------------------------------------------------------------------
\* C26: every add puts the new entry at index 0, keeps the earlier entries in
\* their order, grows the list by exactly one and leaves the file holding
\* exactly the in-memory list, so that loading the file gives the same
\* entries in the same order.
C26_AddKeepsFileInStep ==
    [][(store_state \in {"constructed", "added"} /\ history' # history) =>
          /\ Len(history') = Len(history) + 1
          /\ SubSeq(history', 2, Len(history')) = history
          /\ history_file' = FileJson(ItemsOf(history'))
          /\ HistoryLoad(history_file').entries = history']_vars

BadHistoryFile ==
    \/ history_file.kind # "json_list"
    \/ \E i \in DOMAIN history_file.items : ~Matches(history_file.items[i])

\* C28: constructing the store never fails; on a missing, unreadable,
\* non-JSON or mismatching file the store starts empty; and the construction
\* leaves the file as it is: only an add writes it.
C28_ConstructionNeverFails ==
    [][/\ store_state' # "failed"
       /\ (store_state = "none" /\ store_state' # "none") =>
             /\ store_state' = "constructed"
             /\ history_file' = history_file
             /\ BadHistoryFile => history' = <<>>
       /\ history_file' # history_file => store_state' = "added"]_vars

C28_StartedEmptyOnBadJson ==
    /\ store_state = "constructed"
    /\ history_file = FileBadJson
    /\ history = <<>>

\* ------------------------------------------------------------------------
\* Properties of dataset loading
\* ------------------------------------------------------------------------
\* C21: the file list and the label list have equal length, label i is the
\* label of the folder of file i, row i of the feature matrix is the feature
\* vector of file i, no file is listed twice, and the X and y of a table hold
\* the same rows in the same order.
C21_RowsAndLabelsAligned ==
    LET c == collected IN
    /\ Len(c.files) = Len(c.labels)
    /\ \A i \in DOMAIN c.files :
          c.labels[i] = LabelOfFolder(c.kind, c.files[i].path[1])
    /\ \A i, j \in DOMAIN c.files : c.files[i] = c.files[j] => i = j
    /\ Len(c.rows) <= Len(c.files)
    /\ \A i \in DOMAIN c.rows : c.rows[i] = FeatureRow(c.files[i])
    /\ c.pc = "done" =>
          /\ Len(c.X) = Len(c.labels)
          /\ \A i \in DOMAIN c.X : c.X[i] = FeatureRow(c.files[i])
    /\ csv.train.kind = "ok" =>
          /\ csv.train.x_rows = csv.train.y_rows
          /\ Len(csv.train.y_rows) = csv.df.rows

C21_MatrixOfBothClassesBuilt ==
    /\ collected.pc = "done"
    /\ Len(collected.X) >= 3
    /\ Range(collected.labels) = {0, 1}
    /\ collected.labels[1] = 1

\* C24: for one and the same table, the feature columns _load_csv_features
\* passes on are, in set and order, the feature columns load_csv_dataset
\* trained on, whatever label and identifier columns the table has.
C24_SameColumnsAtInference ==
    (csv.train.kind = "ok" /\ csv.infer.kind = "ok") =>
        csv.infer.columns = csv.train.columns

====
